---- MODULE Spec2Model ----
(***************************************************************************)
(* A model of the ReLeaf tree-planting engine:                             *)
(*   - analyze_spot_with_gemini_vision (ReLeaf_Agent/mcp/server.py), the   *)
(*     asyncio fan-out over critical spots, its join and its summary;      *)
(*   - TreePlantingPipeline.process_location / process_batch               *)
(*     (dev/urban_tree_planting/pipeline/processor.py) and the caller      *)
(*     analyze_tree_planting_opportunities (server.py).                    *)
(*   - GroundLevelDetector.analyze_critical_spots                          *)
(*     (core/ground_tree_detector.py);                                     *)
(*   - get_areas_where_more_tree_can_be_planted (mcp/src);                 *)
(*   - the steps of process_location on the raster of one Location;        *)
(*   - analyze_tree_planting_opportunities with get_pipeline and           *)
(*     upload_to_gcs (server.py), call after call in one server process.   *)
(* Python dictionaries are TLA+ records whose DOMAIN is the key set, so a  *)
(* missing key and a key holding None are different things.                *)
(***************************************************************************)
EXTENDS Integers, Sequences, FiniteSets, TLC

\* ------------------------------------------------------------- bounds
\* Longest critical_spots list handed to the vision tool.
MaxSpots == 2
\* Largest tree_count a vision record reports.
MaxTrees == 1
\* Longest list of Locations handed to process_batch.
MaxLocations == 2
\* Most plantable areas, and most existing trees, OSM answers with.
MaxAreas == 2
\* Most critical regions the analysis of one Location finds.
MaxRegions == 6
\* Most calls of analyze_tree_planting_opportunities one server process gets.
MaxRequests == 2
\* Most streets OSM returns around one Location.
MaxStreets == 1

VARIABLES
    \* ---- analyze_spot_with_gemini_vision
    critical_spots,          \* the argument: a list of spot dicts
    max_spots,               \* the argument max_spots
    vpc,                     \* where the tool's own coroutine is
    tasks,                   \* one record per process_single_spot task
    loop,                    \* the task blocking the event loop in a sync call, 0 if none
    gather_exc,              \* the first exception a task let escape, as gather keeps it
    results,                 \* the local `results`
    streetview_total_time,   \* the local of that name
    gemini_total_time,       \* the local of that name
    response,                \* the object the tool serialises and returns
    vision_calls,            \* history: spot numbers model.generate_content was called for
    \* ---- process_location / process_batch / analyze_tree_planting_opportunities
    caller,                  \* "batch" or "server": who calls process_location
    request,                 \* the server tool's arguments (None for a batch)
    locations,               \* process_batch's argument (names of the Locations)
    delay,                   \* the seconds process_batch sleeps between locations
    bpc,                     \* where process_batch (or the server tool) is
    bidx,                    \* the loop index i of process_batch (1-based)
    stage,                   \* the stage process_location is about to run
    stages_run,              \* history: the stages started for the current Location
    failed_stage,            \* history: the stage that raised for the current Location
    raised,                  \* the exception process_location re-raised (None if none)
    attempts,                \* history: the calls of process_location and how each ended
    bresults,                \* process_batch's local `results`
    bfailed,                 \* process_batch's local `failed`
    sleeps,                  \* history: the indices i after which time.sleep ran
    bresponse,               \* what analyze_tree_planting_opportunities returns
    \* ---- GroundLevelDetector.analyze_critical_spots
    g_spots,                 \* the argument critical_spots
    g_max,                   \* the argument max_spots (None or a number)
    gpc,                     \* where analyze_critical_spots is
    spots_to_analyze,        \* the local of that name
    g_i,                     \* the loop index i (0-based, as enumerate gives it)
    g_results,               \* the local `results`
    g_analyzed,              \* history: the spot numbers analyze_location was called for
    \* ---- get_areas_where_more_tree_can_be_planted
    apc,                     \* where the function is
    plantable_areas,         \* the frame of that name: the area_m2 of its rows
    existing_trees,          \* the frame of that name: its number of rows
    original_count,          \* the local of that name
    output_path,             \* the local of that name (None until the map is saved)
    a_failed,                \* history: the steps that raised
    a_result,                \* what the function returns
    \* ---- process_location, steps 3 to 5, on one Location's raster
    rpc,                     \* the step process_location is about to run
    location,                \* the Location object: the attributes set so far
    \* ---- analyze_tree_planting_opportunities and the globals of server.py
    _pipeline,               \* the global of that name
    _visualizer,             \* the global of that name
    _storage_client,         \* the global of that name
    _signing_credentials,    \* the global of that name
    api_key,                 \* the environment's GOOGLE_MAPS_API_KEY (None if unset)
    tpc,                     \* where the tool is
    t_request,               \* the arguments of the call in progress
    t_calls,                 \* history: how many calls of the tool were made
    t_constructed,           \* history: how many TreePlantingPipeline() calls returned
    t_pipelines,             \* history: what every returning get_pipeline call returned
    regions,                 \* how many critical regions process_location found
    summary_data,            \* the local of that name
    analysis_url,            \* the local of that name
    component_url,           \* the local of that name
    t_uploads,               \* history: where each upload_to_gcs call of this run failed
    t_response               \* what the tool returns (None until it does)

vvars == <<critical_spots, max_spots, vpc, tasks, loop, gather_exc, results,
           streetview_total_time, gemini_total_time, response, vision_calls>>
bvars == <<caller, request, locations, delay, bpc, bidx, stage, stages_run, failed_stage,
           raised, attempts, bresults, bfailed, sleeps, bresponse>>
gvars == <<g_spots, g_max, gpc, spots_to_analyze, g_i, g_results, g_analyzed>>
\* The variables of the other parts of the engine.
avars == <<apc, plantable_areas, existing_trees, original_count, output_path,
           a_failed, a_result>>
rvars == <<rpc, location>>
tvars == <<_pipeline, _visualizer, _storage_client, _signing_credentials, api_key, tpc,
           t_request, t_calls, t_constructed, t_pipelines, regions, summary_data,
           analysis_url, component_url, t_uploads, t_response>>
xvars == <<gvars, avars, rvars, tvars>>
vars == <<vvars, bvars, xvars>>

\* ------------------------------------------------------ Python values
None == [t |-> "none"]
Num(n) == [t |-> "num", n |-> n]
Str(s) == [t |-> "str", s |-> s]
Dict(d) == [t |-> "dict", d |-> d]
List == [t |-> "list"]

\* dict.get(key): None when the key is absent.
Get(d, k) == IF k \in DOMAIN d THEN d[k] ELSE None

\* dict.get(key, default)
GetOr(d, k, default) == IF k \in DOMAIN d THEN d[k] ELSE default

\* Python truthiness of a value.
Truthy(v) ==
    CASE v.t = "none" -> FALSE
      [] v.t = "num"  -> v.n # 0
      [] v.t = "str"  -> v.s # ""
      [] v.t = "dict" -> DOMAIN v.d # {}
      [] OTHER        -> TRUE

\* Python's `a or b`.
PyOr(a, b) == IF Truthy(a) THEN a ELSE b

Min(a, b) == IF a <= b THEN a ELSE b
Max(a, b) == IF a >= b THEN a ELSE b

\* seq[-1]
Last(seq) == seq[Len(seq)]

\* seq[:m] as Python slices it (a negative m counts from the end).
SliceTo(seq, m) ==
    IF m >= 0 THEN SubSeq(seq, 1, Min(m, Len(seq)))
    ELSE SubSeq(seq, 1, Max(Len(seq) + m, 0))

\* ------------------------------------------------- the spots handed in
\* {"coordinates": {"latitude": .., "longitude": ..}, ...}: the documented shape.
SpotNested ==
    [coordinates |-> [latitude |-> Num(3), longitude |-> Num(101)],
     priority_score |-> Num(95), area_m2 |-> Num(55), spot_id |-> Num(7)]

\* A coordinates object that lacks latitude and longitude.
SpotNoLatLon ==
    [coordinates |-> [elevation |-> Num(40)],
     priority_score |-> Num(95), area_m2 |-> Num(55), spot_id |-> Num(7)]

\* Flat latitude/longitude keys.
SpotFlat ==
    [latitude |-> Num(3), longitude |-> Num(101),
     priority_score |-> Num(95), area_m2 |-> Num(55), spot_id |-> Num(7)]

\* No coordinate at all.
SpotNoCoords == [priority_score |-> Num(95), area_m2 |-> Num(55), spot_id |-> Num(7)]

\* Flat lat/lon keys.
SpotShort ==
    [lat |-> Num(4), lon |-> Num(102),
     priority_score |-> Num(88), area_m2 |-> Num(40), spot_id |-> Num(8)]

\* A spot on the equator, flat keys: its latitude is the number 0.
SpotFlatEquator ==
    [latitude |-> Num(0), longitude |-> Num(101),
     priority_score |-> Num(91), area_m2 |-> Num(30), spot_id |-> Num(9)]

\* The same spot in the documented shape.
SpotNestedEquator ==
    [coordinates |-> [latitude |-> Num(0), longitude |-> Num(101)],
     priority_score |-> Num(91), area_m2 |-> Num(30), spot_id |-> Num(9)]

SpotSamples ==
    {SpotNested, SpotNoLatLon, SpotFlat, SpotNoCoords,
     SpotShort, SpotFlatEquator, SpotNestedEquator}

RECURSIVE SeqsUpTo(_, _)
\* All sequences over S of length at most n.
SeqsUpTo(S, n) ==
    IF n = 0 THEN {<<>>}
    ELSE LET shorter == SeqsUpTo(S, n - 1)
         IN  shorter \cup {Append(q, x) : q \in {r \in shorter : Len(r) = n - 1}, x \in S}

\* The measured durations, in ticks. They are only summed and reported, so
\* one value per provider is enough: the two totals then stay apart.
StreetViewTimes == {1}
GeminiTimes == {2}

\* ----------------------------------------- the vision model's response
\* response.text is a sequence of chunks: a code-fence marker, a bare word
\* (a language tag), one JSON value, or text that is no JSON.
Fence == [k |-> "fence"]
Word(w) == [k |-> "word", w |-> w]
Json(v) == [k |-> "json", v |-> v]
Junk == [k |-> "junk"]
\* The text of a JSON object one of whose strings holds a fence marker is the
\* object's text up to the marker, the marker, and the rest of the text.
JsonOpen(v) == [k |-> "json_open", v |-> v]
JsonClose == [k |-> "json_close"]

VisionRecord(n) ==
    Dict([tree_count |-> Num(n), planting_feasibility |-> Str("high"),
          recommended_tree_count |-> Num(2)])

\* {} : a JSON object with no key.
EmptyObject == Dict([x \in {} |-> None])
\* A JSON object without tree_count.
NoCountObject == Dict([mature_trees |-> Num(1)])
\* A JSON object whose tree_count is not a number.
BadCountObject == Dict([tree_count |-> Str("three")])

\* A record whose planting_recommendations string holds a fence marker.
NoteObject ==
    Dict([tree_count |-> Num(0), planting_feasibility |-> Str("high"),
          recommended_tree_count |-> Num(2),
          planting_recommendations |-> Str("mulch <fence> ring")])

\* The text of a bare JSON object, as chunks.
ObjectText(v) == IF v = NoteObject THEN <<JsonOpen(v), Fence, JsonClose>> ELSE <<Json(v)>>

\* The objects the model is seen to answer with inside code fences.
FencedObjects == {VisionRecord(0), NoteObject}

\* The object's text inside code-fence markers, with or without the json tag,
\* a sentence before the opening marker, a sentence after the closing one.
Fenced(body, tagged, preamble, trailer) ==
    (IF preamble THEN <<Junk>> ELSE <<>>)
    \o <<Fence>> \o (IF tagged THEN <<Word("json")>> ELSE <<>>)
    \o body \o <<Fence>>
    \o (IF trailer THEN <<Junk>> ELSE <<>>)

FencedTexts ==
    {Fenced(ObjectText(v), tagged, preamble, trailer) :
        v \in FencedObjects, tagged \in BOOLEAN, preamble \in BOOLEAN, trailer \in BOOLEAN}

ResponseTexts ==
    {<<Json(VisionRecord(n))>> : n \in 0..MaxTrees}
    \cup FencedTexts
    \cup {ObjectText(NoteObject),
          <<Junk>>,
          <<Json(List)>>,
          <<Json(EmptyObject)>>,
          <<Json(NoCountObject)>>,
          <<Json(BadCountObject)>>}

RECURSIVE UpToFence(_)
\* text.split("```")[0]: the chunks before the first fence marker.
UpToFence(text) ==
    IF text = <<>> \/ text[1].k = "fence" THEN <<>>
    ELSE <<text[1]>> \o UpToFence(Tail(text))

StartsWithFenceJson(text) ==
    /\ Len(text) >= 2
    /\ text[1].k = "fence"
    /\ text[2].k = "word"
    /\ text[2].w = "json"

StartsWithFence(text) == Len(text) >= 1 /\ text[1].k = "fence"

\* Lines 613-618: remove markdown code blocks if present.
StripFences(text) ==
    IF StartsWithFenceJson(text) THEN UpToFence(SubSeq(text, 3, Len(text)))
    ELSE IF StartsWithFence(text) THEN UpToFence(Tail(text))
    ELSE text

\* json.loads: the whole text of one JSON value and nothing else, or
\* JSONDecodeError.
JsonLoads(content) ==
    IF Len(content) = 1 /\ content[1].k = "json"
    THEN [ok |-> TRUE, v |-> content[1].v]
    ELSE IF /\ Len(content) = 3
            /\ content[1].k = "json_open"
            /\ content[2].k = "fence"
            /\ content[3].k = "json_close"
    THEN [ok |-> TRUE, v |-> content[1].v]
    ELSE [ok |-> FALSE, v |-> None]


\* ------------------------------------- process_single_spot: its results
\* The spot_info of lines 543-548 and 630-635.
SpotInfo(spot, spot_num) ==
    [spot_number |-> spot_num,
     priority_score |-> Get(spot, "priority_score"),
     area_m2 |-> Get(spot, "area_m2"),
     spot_id |-> Get(spot, "spot_id")]

\* The spot_info of lines 563-567 and 646-650 (no spot_id).
SpotInfoShort(spot, spot_num) ==
    [spot_number |-> spot_num,
     priority_score |-> Get(spot, "priority_score"),
     area_m2 |-> Get(spot, "area_m2")]

\* Mutant of NoPanoramaEntry: the flag left at True.
NoPanoramaEntryAvailable(spot, spot_num, lat, lon) ==
    [spot_number |-> spot_num,
     location |-> [latitude |-> lat, longitude |-> lon],
     street_view_available |-> TRUE,
     vision_analysis |-> None,
     spot_info |-> SpotInfo(spot, spot_num)]

\* Lines 538-549: search_panoramas found nothing.
NoPanoramaEntry(spot, spot_num, lat, lon) ==
    [spot_number |-> spot_num,
     location |-> [latitude |-> lat, longitude |-> lon],
     street_view_available |-> FALSE,
     vision_analysis |-> None,
     spot_info |-> SpotInfo(spot, spot_num)]

\* Lines 558-568: the search or the download raised.
StreetViewErrorEntry(spot, spot_num, lat, lon, msg) ==
    [spot_number |-> spot_num,
     location |-> [latitude |-> lat, longitude |-> lon],
     street_view_available |-> FALSE,
     error |-> msg,
     spot_info |-> SpotInfoShort(spot, spot_num)]

\* Lines 625-637: the vision record was parsed. `total` is the task's whole
\* elapsed time; the encoding and the prompt take no tick of their own.
VisionEntry(spot, spot_num, lat, lon, analysis, sv_time, gemini_time) ==
    [spot_number |-> spot_num,
     location |-> [latitude |-> lat, longitude |-> lon],
     street_view_available |-> TRUE,
     vision_analysis |-> analysis,
     spot_info |-> SpotInfo(spot, spot_num),
     timing |-> [streetview |-> sv_time, gemini |-> gemini_time,
                 total |-> sv_time + gemini_time]]

\* Mutant of VisionErrorEntry: the error swallowed into a null record.
VisionErrorEntrySilent(spot, spot_num, lat, lon, msg) ==
    [spot_number |-> spot_num,
     location |-> [latitude |-> lat, longitude |-> lon],
     street_view_available |-> TRUE,
     vision_analysis |-> None,
     spot_info |-> SpotInfoShort(spot, spot_num)]

\* Lines 641-651: the vision call, response.text or the parsing raised.
VisionErrorEntry(spot, spot_num, lat, lon, msg) ==
    [spot_number |-> spot_num,
     location |-> [latitude |-> lat, longitude |-> lon],
     street_view_available |-> TRUE,
     vision_analysis_error |-> msg,
     spot_info |-> SpotInfoShort(spot, spot_num)]

\* Lines 612-651: what the task returns for the response text `text`.
\* vision_analysis.get(...) in the log line 622 raises AttributeError when
\* json.loads gave something that is no dict.
ParsedEntry(spot, spot_num, lat, lon, text, sv_time, gemini_time) ==
    LET parsed == JsonLoads(StripFences(text))
    IN  IF ~parsed.ok
        THEN VisionErrorEntry(spot, spot_num, lat, lon, "JSONDecodeError")
        ELSE IF parsed.v.t # "dict"
        THEN VisionErrorEntry(spot, spot_num, lat, lon, "AttributeError")
        ELSE VisionEntry(spot, spot_num, lat, lon, parsed.v, sv_time, gemini_time)

\* A task before its first step.
\* `image` is history: what became of the spot's Street View image.
NewTask == [pc |-> "created", lat |-> None, lon |-> None, sv_time |-> 0,
            image |-> "pending", out |-> [k |-> "pending"]]

Returned(task, entry) == [task EXCEPT !.pc = "done", !.out = [k |-> "entry", e |-> entry]]
ReturnedNone(task) == [task EXCEPT !.pc = "done", !.out = [k |-> "none"]]
Raised(task, msg) == [task EXCEPT !.pc = "raised", !.out = [k |-> "exc", msg |-> msg]]

\* gather keeps the first exception a task lets escape.
FirstException(msg) == IF gather_exc = None THEN Str(msg) ELSE gather_exc

Finished(task) == task.pc \in {"done", "raised"}
AllStarted == \A j \in DOMAIN tasks : tasks[j].pc # "created"
AllFinished == \A j \in DOMAIN tasks : Finished(tasks[j])

\* ------------------------------------ analyze_spot_with_gemini_vision
BatchFailed(msg) ==
    [error |-> msg, status |-> "failed",
     message |-> "Vision analysis failed. Check logs for details."]

\* Mutant of VStart: one task per spot of the whole list.
VStartAll(key_present, vertex_ok) ==
    /\ vpc = "init"
    /\ key_present
    /\ vertex_ok
    /\ tasks' = [i \in 1..Len(critical_spots) |-> NewTask]
    /\ vpc' = "gather"
    /\ UNCHANGED <<critical_spots, max_spots, loop, gather_exc, results, response,
                   streetview_total_time, gemini_total_time, vision_calls, bvars, xvars>>

\* Lines 473-511 and 653-656: the API key, Vertex AI, then one task per spot
\* of critical_spots[:max_spots], handed to asyncio.gather.
VStart(key_present, vertex_ok) ==
    /\ vpc = "init"
    /\ IF ~key_present
       THEN /\ response' = [error |-> "GOOGLE_MAPS_API_KEY not found in environment variables",
                            status |-> "failed"]
            /\ vpc' = "returned"
            /\ tasks' = tasks
       ELSE IF ~vertex_ok
       THEN /\ response' = [error |-> "Vertex AI initialization failed",
                            status |-> "failed"]
            /\ vpc' = "returned"
            /\ tasks' = tasks
       ELSE /\ tasks' = [i \in 1..Len(SliceTo(critical_spots, max_spots)) |-> NewTask]
            /\ vpc' = "gather"
            /\ response' = response
    /\ UNCHANGED <<critical_spots, max_spots, loop, gather_exc, results,
                   streetview_total_time, gemini_total_time, vision_calls, bvars, xvars>>

\* Lines 514-527: the coordinates of the spot.
Latitude(spot) ==
    IF "coordinates" \in DOMAIN spot THEN spot.coordinates.latitude
    ELSE PyOr(Get(spot, "latitude"), Get(spot, "lat"))

Longitude(spot) ==
    IF "coordinates" \in DOMAIN spot THEN spot.coordinates.longitude
    ELSE PyOr(Get(spot, "longitude"), Get(spot, "lon"))

\* spot["coordinates"]["latitude"] raises KeyError on a missing key.
CoordinatesRaise(spot) ==
    /\ "coordinates" \in DOMAIN spot
    /\ ~({"latitude", "longitude"} \subseteq DOMAIN spot.coordinates)

\* Lines 512-534: a task's first step, up to the blocking call of
\* search_panoramas. Tasks take their first step in the order gather made them.
TaskFirstStep(i) ==
    /\ vpc = "gather"
    /\ i \in DOMAIN tasks
    /\ tasks[i].pc = "created"
    /\ \A j \in 1..(i - 1) : tasks[j].pc # "created"
    /\ loop = 0
    /\ LET spot == critical_spots[i]
       IN  IF CoordinatesRaise(spot)
           THEN /\ tasks' = [tasks EXCEPT ![i] = Raised(@, "KeyError")]
                /\ gather_exc' = FirstException("KeyError")
                /\ loop' = loop
           ELSE IF Latitude(spot) = None \/ Longitude(spot) = None
           THEN /\ tasks' = [tasks EXCEPT ![i] = ReturnedNone(@)]
                /\ UNCHANGED <<gather_exc, loop>>
           ELSE /\ tasks' = [tasks EXCEPT ![i] = [@ EXCEPT !.pc = "search",
                                                           !.lat = Latitude(spot),
                                                           !.lon = Longitude(spot)]]
                /\ loop' = i
                /\ gather_exc' = gather_exc
    /\ UNCHANGED <<critical_spots, max_spots, vpc, results, streetview_total_time,
                   gemini_total_time, response, vision_calls, bvars, xvars>>

\* Lines 534-552 and 556-568: search_panoramas answers (it blocks the event
\* loop until it does): nothing found, an exception, or a panorama, whose
\* download the task then awaits.
SearchReturns(i, outcome) ==
    /\ i \in DOMAIN tasks
    /\ tasks[i].pc = "search"
    /\ loop = i
    /\ LET spot == critical_spots[i]
           t == tasks[i]
       IN  tasks' = [tasks EXCEPT ![i] =
               CASE outcome = "none" ->
                        Returned([t EXCEPT !.image = "none"],
                                 NoPanoramaEntry(spot, i, t.lat, t.lon))
                 [] outcome = "raise" ->
                        Returned([t EXCEPT !.image = "raised"],
                                 StreetViewErrorEntry(spot, i, t.lat, t.lon, "search failed"))
                 [] OTHER -> [t EXCEPT !.pc = "download"]]
    /\ loop' = 0
    /\ UNCHANGED <<critical_spots, max_spots, vpc, gather_exc, results,
                   streetview_total_time, gemini_total_time, response, vision_calls, bvars, xvars>>

\* Lines 552-610: get_panorama_async resolves and the task runs on, without
\* another await, to the blocking call of model.generate_content. image.save
\* (line 574) is outside every try of the task.
DownloadReturns(i, outcome, sv_time, save_ok) ==
    /\ i \in DOMAIN tasks
    /\ tasks[i].pc = "download"
    /\ loop = 0
    /\ AllStarted
    /\ LET spot == critical_spots[i]
           t == tasks[i]
       IN  IF outcome = "raise"
           THEN /\ tasks' = [tasks EXCEPT ![i] =
                       Returned([t EXCEPT !.image = "raised"],
                                StreetViewErrorEntry(spot, i, t.lat, t.lon, "download failed"))]
                /\ UNCHANGED <<gather_exc, loop, vision_calls>>
           ELSE IF ~save_ok
           THEN /\ tasks' = [tasks EXCEPT ![i] = Raised([t EXCEPT !.image = "obtained"], "OSError")]
                /\ gather_exc' = FirstException("OSError")
                /\ UNCHANGED <<loop, vision_calls>>
           ELSE /\ tasks' = [tasks EXCEPT ![i] = [t EXCEPT !.pc = "vision",
                                                           !.image = "obtained",
                                                           !.sv_time = sv_time]]
                /\ loop' = i
                /\ vision_calls' = Append(vision_calls, i)
                /\ gather_exc' = gather_exc
    /\ UNCHANGED <<critical_spots, max_spots, vpc, results, streetview_total_time,
                   gemini_total_time, response, bvars, xvars>>

\* Mutant of VisionReturns: the task adds its own time to the shared total.
VisionReturnsShared(i, text, gemini_time) ==
    /\ i \in DOMAIN tasks
    /\ tasks[i].pc = "vision"
    /\ loop = i
    /\ LET t == tasks[i]
       IN  tasks' = [tasks EXCEPT ![i] =
               Returned(t, ParsedEntry(critical_spots[i], i, t.lat, t.lon, text,
                                       t.sv_time, gemini_time))]
    /\ loop' = 0
    /\ gemini_total_time' = gemini_total_time + gemini_time
    /\ UNCHANGED <<critical_spots, max_spots, vpc, gather_exc, results,
                   streetview_total_time, response, vision_calls, bvars, xvars>>

\* Lines 607-637: generate_content answers with `text`.
VisionReturns(i, text, gemini_time) ==
    /\ i \in DOMAIN tasks
    /\ tasks[i].pc = "vision"
    /\ loop = i
    /\ LET t == tasks[i]
       IN  tasks' = [tasks EXCEPT ![i] =
               Returned(t, ParsedEntry(critical_spots[i], i, t.lat, t.lon, text,
                                       t.sv_time, gemini_time))]
    /\ loop' = 0
    /\ UNCHANGED <<critical_spots, max_spots, vpc, gather_exc, results,
                   streetview_total_time, gemini_total_time, response, vision_calls, bvars, xvars>>

\* Lines 607-613 and 639-651: generate_content or response.text raises.
VisionRaises(i) ==
    /\ i \in DOMAIN tasks
    /\ tasks[i].pc = "vision"
    /\ loop = i
    /\ LET t == tasks[i]
       IN  tasks' = [tasks EXCEPT ![i] =
               Returned(t, VisionErrorEntry(critical_spots[i], i, t.lat, t.lon, "vision failed"))]
    /\ loop' = 0
    /\ UNCHANGED <<critical_spots, max_spots, vpc, gather_exc, results,
                   streetview_total_time, gemini_total_time, response, vision_calls, bvars, xvars>>

\* Lines 534, 552 and 607: no call is given a timeout and nothing wraps one
\* in asyncio.wait_for, so a provider that never answers leaves the task where
\* it is for good (and, in the two blocking calls, the event loop with it).
ProviderNeverAnswers(i) ==
    /\ i \in DOMAIN tasks
    /\ tasks[i].pc \in {"search", "download", "vision"}
    /\ tasks' = [tasks EXCEPT ![i] = [@ EXCEPT !.pc =
                    CASE @ = "search" -> "search_hung"
                      [] @ = "download" -> "download_hung"
                      [] OTHER -> "vision_hung"]]
    /\ UNCHANGED <<critical_spots, max_spots, vpc, loop, gather_exc, results,
                   streetview_total_time, gemini_total_time, response, vision_calls, bvars, xvars>>

\* Mutant of TaskResults: the results in the reverse of the task order.
TaskResultsReversed(ts, i) ==
    LET kept == {j \in i..Len(ts) : ts[j].out.k = "entry"}
        nth(k) == CHOOSE j \in kept : Cardinality({m \in kept : m > j}) = k - 1
    IN  [k \in 1..Cardinality(kept) |-> ts[nth(k)].out.e]

RECURSIVE TaskResults(_, _)
\* Lines 656-657: the tasks' results in task order, the None ones dropped.
TaskResults(ts, i) ==
    IF i > Len(ts) THEN <<>>
    ELSE (IF ts[i].out.k = "entry" THEN <<ts[i].out.e>> ELSE <<>>)
         \o TaskResults(ts, i + 1)

\* Lines 656-657 and 715-722: the await of gather ends. gather raises the
\* first exception a task let escape as soon as there is one (the other tasks
\* are not cancelled and run on); otherwise it returns when every task has.
Join ==
    /\ vpc = "gather"
    /\ loop = 0
    /\ AllStarted
    /\ IF gather_exc # None
       THEN /\ response' = BatchFailed(gather_exc.s)
            /\ vpc' = "returned"
            /\ results' = results
       ELSE /\ AllFinished
            /\ results' = TaskResults(tasks, 1)
            /\ vpc' = "timing"
            /\ response' = response
    /\ UNCHANGED <<critical_spots, max_spots, tasks, loop, gather_exc,
                   streetview_total_time, gemini_total_time, vision_calls, bvars, xvars>>

RECURSIVE SumTiming(_, _)
\* Lines 660-663: the sum of timing[which] over the results that have a timing.
SumTiming(rs, which) ==
    IF rs = <<>> THEN 0
    ELSE (IF "timing" \in DOMAIN Head(rs) THEN Head(rs).timing[which] ELSE 0)
         + SumTiming(Tail(rs), which)

\* Lines 659-663: the timing statistics.
Timing ==
    /\ vpc = "timing"
    /\ streetview_total_time' = streetview_total_time + SumTiming(results, "streetview")
    /\ gemini_total_time' = gemini_total_time + SumTiming(results, "gemini")
    /\ vpc' = "summary"
    /\ UNCHANGED <<critical_spots, max_spots, tasks, loop, gather_exc, results,
                   response, vision_calls, bvars, xvars>>

\* r.get("vision_analysis"), as line 667 tests it.
HasVisionAnalysis(r) == Truthy(Get(r, "vision_analysis"))

\* Line 667.
SuccessfulAnalyses(rs) == SelectSeq(rs, HasVisionAnalysis)

\* r["vision_analysis"].get("tree_count", 0)
TreeCount(r) == GetOr(r.vision_analysis.d, "tree_count", Num(0))

\* Lines 668-669: `> 0` raises TypeError on a tree_count that is no number.
CountRaises(ok) == \E k \in DOMAIN ok : TreeCount(ok[k]).t # "num"

\* Lines 693-699: r["vision_analysis"]["tree_count"] raises KeyError for a
\* record that passed the filter `.get("tree_count", 0) == 0` by its default.
PriorityRaises(ok) ==
    \E k \in DOMAIN ok : TreeCount(ok[k]) = Num(0) /\ "tree_count" \notin DOMAIN ok[k].vision_analysis.d

\* Mutant of TotalTrees: the counted spots instead of their trees.
TotalTreesAsSpots(ok) == Len(ok)

RECURSIVE TotalTrees(_)
\* Lines 671-672.
TotalTrees(ok) ==
    IF ok = <<>> THEN 0 ELSE TreeCount(Head(ok)).n + TotalTrees(Tail(ok))

\* round(a / b, 2) in hundredths, ties to even.
RoundedHundredths(a, b) ==
    LET q == (100 * a) \div b
        r == (100 * a) % b
    IN  IF 2 * r > b \/ (2 * r = b /\ q % 2 = 1) THEN q + 1 ELSE q

NoTrees(r) == TreeCount(r) = Num(0)

\* Lines 689-697: one entry of highest_priority_for_planting.
PriorityItem(r) ==
    [spot_number |-> r.spot_number,
     location |-> r.location,
     priority_score |-> r.spot_info.priority_score,
     tree_count |-> r.vision_analysis.d.tree_count,
     planting_feasibility |-> GetOr(r.vision_analysis.d, "planting_feasibility", Str("unknown")),
     recommended_tree_count |-> GetOr(r.vision_analysis.d, "recommended_tree_count", Num(0)),
     reason |-> "No existing trees - ready for new planting"]

RECURSIVE PriorityItems(_)
PriorityItems(rs) ==
    IF rs = <<>> THEN <<>>
    ELSE <<PriorityItem(Head(rs))>> \o PriorityItems(Tail(rs))

\* Mutant of SummaryResponse: every result counted as analysed.
SummaryResponseAll(rs) ==
    LET ok == SuccessfulAnalyses(rs)
        spots_with_trees == Cardinality({k \in DOMAIN ok : TreeCount(ok[k]).n > 0})
        total_trees == TotalTrees(ok)
    IN  IF CountRaises(ok) THEN BatchFailed("TypeError")
        ELSE IF PriorityRaises(ok) THEN BatchFailed("KeyError")
        ELSE [total_spots_analyzed |-> Len(rs),
              results |-> rs,
              summary |->
                [spots_with_trees |-> spots_with_trees,
                 spots_without_trees |-> Len(rs) - spots_with_trees,
                 total_trees_detected |-> total_trees,
                 average_trees_per_spot |->
                     IF rs # <<>> THEN RoundedHundredths(total_trees, Len(rs)) ELSE 0,
                 highest_priority_for_planting |->
                     PriorityItems(SelectSeq(ok, NoTrees))],
              status |-> "ok"]

\* Lines 665-707: the response of a batch whose gather returned.
\* average_trees_per_spot is held in hundredths.
SummaryResponse(rs) ==
    LET ok == SuccessfulAnalyses(rs)
        spots_with_trees == Cardinality({k \in DOMAIN ok : TreeCount(ok[k]).n > 0})
        total_trees == TotalTrees(ok)
    IN  IF CountRaises(ok) THEN BatchFailed("TypeError")
        ELSE IF PriorityRaises(ok) THEN BatchFailed("KeyError")
        ELSE [total_spots_analyzed |-> Len(ok),
              results |-> rs,
              summary |->
                [spots_with_trees |-> spots_with_trees,
                 spots_without_trees |-> Len(ok) - spots_with_trees,
                 total_trees_detected |-> total_trees,
                 average_trees_per_spot |->
                     IF ok # <<>> THEN RoundedHundredths(total_trees, Len(ok)) ELSE 0,
                 highest_priority_for_planting |->
                     PriorityItems(SelectSeq(ok, NoTrees))],
              status |-> "ok"]

\* Lines 665-722: the summary, the response, or the outer except.
Summarize ==
    /\ vpc = "summary"
    /\ response' = SummaryResponse(results)
    /\ vpc' = "returned"
    /\ UNCHANGED <<critical_spots, max_spots, tasks, loop, gather_exc, results,
                   streetview_total_time, gemini_total_time, vision_calls, bvars, xvars>>

\* ----------------------------------------------------------- the tool
MaxSpotsArgs == 0..MaxSpots

GroundIdle ==
    /\ g_spots = <<>>
    /\ g_max = None
    /\ gpc = "idle"
    /\ spots_to_analyze = <<>>
    /\ g_i = 0
    /\ g_results = <<>>
    /\ g_analyzed = <<>>

AreasIdle ==
    /\ apc = "idle"
    /\ plantable_areas = <<>>
    /\ existing_trees = 0
    /\ original_count = 0
    /\ output_path = None
    /\ a_failed = {}
    /\ a_result = None

RasterIdle ==
    /\ rpc = "idle"
    /\ location = None

ToolIdle ==
    /\ _pipeline = None
    /\ _visualizer = None
    /\ _storage_client = None
    /\ _signing_credentials = None
    /\ api_key = None
    /\ tpc = "idle"
    /\ t_request = None
    /\ t_calls = 0
    /\ t_constructed = 0
    /\ t_pipelines = <<>>
    /\ regions = 0
    /\ summary_data = None
    /\ analysis_url = None
    /\ component_url = None
    /\ t_uploads = <<>>
    /\ t_response = None

\* The other parts of the engine are not running.
OthersIdle == GroundIdle /\ AreasIdle /\ RasterIdle /\ ToolIdle

BatchIdle ==
    /\ caller = "none"
    /\ request = None
    /\ locations = <<>>
    /\ delay = 0
    /\ bpc = "idle"
    /\ bidx = 0
    /\ stage = "none"
    /\ stages_run = <<>>
    /\ failed_stage = "none"
    /\ raised = None
    /\ attempts = <<>>
    /\ bresults = <<>>
    /\ bfailed = <<>>
    /\ sleeps = <<>>
    /\ bresponse = None

VisionInit ==
    /\ critical_spots \in SeqsUpTo(SpotSamples, MaxSpots)
    /\ max_spots \in MaxSpotsArgs
    /\ vpc = "init"
    /\ tasks = <<>>
    /\ loop = 0
    /\ gather_exc = None
    /\ results = <<>>
    /\ streetview_total_time = 0
    /\ gemini_total_time = 0
    /\ response = None
    /\ vision_calls = <<>>
    /\ BatchIdle
    /\ OthersIdle

VisionNext ==
    \/ \E key_present \in BOOLEAN, vertex_ok \in BOOLEAN : VStart(key_present, vertex_ok)
    \/ \E i \in 1..MaxSpots : TaskFirstStep(i)
    \/ \E i \in 1..MaxSpots, outcome \in {"none", "raise", "found"} : SearchReturns(i, outcome)
    \/ \E i \in 1..MaxSpots, outcome \in {"image", "raise"}, sv_time \in StreetViewTimes,
          save_ok \in BOOLEAN : DownloadReturns(i, outcome, sv_time, save_ok)
    \/ \E i \in 1..MaxSpots, text \in ResponseTexts, gemini_time \in GeminiTimes :
          VisionReturns(i, text, gemini_time)
    \/ \E i \in 1..MaxSpots : VisionRaises(i)
    \/ \E i \in 1..MaxSpots : ProviderNeverAnswers(i)
    \/ Join
    \/ Timing
    \/ Summarize

VisionSpec == VisionInit /\ [][VisionNext]_vars

\* The event loop runs whatever is runnable; only the providers may stay silent.
VisionFairSpec == VisionSpec /\ WF_vars(VisionNext)

\* ------------------------------------------ TreePlantingPipeline
\* The six steps of process_location, in the order of lines 76-98.
Stages == <<"download", "align", "detect", "mask", "score", "visualize">>

StageIndex(st) == CHOOSE k \in DOMAIN Stages : Stages[k] = st

\* Mutant of NextStage: the scoring step is called right after the alignment.
NextStageScoreEarly(st) ==
    CASE st = "align" -> "score"
      [] st = "score" -> "detect"
      [] st = "mask" -> "visualize"
      [] StageIndex(st) < Len(Stages) -> Stages[StageIndex(st) + 1]
      [] OTHER -> "returned"

\* The stage after st, "returned" after the last one (line 104).
NextStage(st) ==
    IF StageIndex(st) < Len(Stages) THEN Stages[StageIndex(st) + 1] ELSE "returned"

\* str(e) of what a core module raises: the processor adds nothing to it,
\* and the same error can come out of different steps.
ErrorMessages == {"timeout", "invalid data"}

LocationNames == {"menara_lgb", "klcc"}

\* location_name.lower().replace(' ', '_') (server.py line 228)
NormalisedName(location_name) ==
    CASE location_name = "Menara LGB" -> "menara_lgb"
      [] location_name = "KLCC" -> "klcc"
      [] OTHER -> location_name

Requests ==
    {[location_name |-> n, latitude |-> 3, longitude |-> 101] : n \in {"Menara LGB", "KLCC"}}

\* process_batch, lines 125-134.
BatchBegin ==
    /\ caller = "batch"
    /\ bpc = "start"
    /\ bresults' = <<>>
    /\ bfailed' = <<>>
    /\ bidx' = 1
    /\ bpc' = "loop"
    /\ UNCHANGED <<caller, request, locations, delay, stage, stages_run, failed_stage,
                   raised, attempts, sleeps, bresponse, vvars, xvars>>

\* process_batch, lines 136-140: the next Location goes to process_location.
BatchCall ==
    /\ caller = "batch"
    /\ bpc = "loop"
    /\ bidx <= Len(locations)
    /\ attempts' = Append(attempts, [name |-> locations[bidx], outcome |-> "running", error |-> ""])
    /\ stage' = Stages[1]
    /\ stages_run' = <<>>
    /\ failed_stage' = "none"
    /\ raised' = None
    /\ bpc' = "in_location"
    /\ UNCHANGED <<caller, request, locations, delay, bidx, bresults, bfailed, sleeps,
                   bresponse, vvars, xvars>>

\* server.py lines 225-244: the tool builds its Location and hands it to
\* process_location.
ServerCall ==
    /\ caller = "server"
    /\ bpc = "start"
    /\ locations' = <<NormalisedName(request.location_name)>>
    /\ bidx' = 1
    /\ attempts' = Append(attempts, [name |-> NormalisedName(request.location_name),
                                      outcome |-> "running", error |-> ""])
    /\ stage' = Stages[1]
    /\ stages_run' = <<>>
    /\ failed_stage' = "none"
    /\ raised' = None
    /\ bpc' = "in_location"
    /\ UNCHANGED <<caller, request, delay, bresults, bfailed, sleeps, bresponse, vvars, xvars>>

\* process_location, lines 75-104: the current step returns and the next one
\* starts.
StageReturns ==
    /\ bpc = "in_location"
    /\ stage \in {Stages[k] : k \in DOMAIN Stages}
    /\ stages_run' = Append(stages_run, stage)
    /\ stage' = NextStage(stage)
    /\ attempts' = IF NextStage(stage) = "returned"
                   THEN [attempts EXCEPT ![Len(attempts)].outcome = "returned"]
                   ELSE attempts
    /\ UNCHANGED <<caller, request, locations, delay, bpc, bidx, failed_stage, raised,
                   bresults, bfailed, sleeps, bresponse, vvars, xvars>>

\* process_location, lines 106-111: the current step raises; the handler logs
\* the name and the error and re-raises the exception as it is.
StageRaises(msg) ==
    /\ bpc = "in_location"
    /\ stage \in {Stages[k] : k \in DOMAIN Stages}
    /\ stages_run' = Append(stages_run, stage)
    /\ failed_stage' = stage
    /\ raised' = [msg |-> msg]
    /\ stage' = "raised"
    /\ attempts' = [attempts EXCEPT ![Len(attempts)].outcome = "raised",
                                    ![Len(attempts)].error = msg]
    /\ UNCHANGED <<caller, request, locations, delay, bpc, bidx, bresults,
                   bfailed, sleeps, bresponse, vvars, xvars>>

\* process_batch, lines 140-146: the Location came back; time.sleep unless
\* it was the last one.
BatchSuccess ==
    /\ caller = "batch"
    /\ bpc = "in_location"
    /\ stage = "returned"
    /\ bresults' = Append(bresults, locations[bidx])
    /\ sleeps' = IF bidx < Len(locations) THEN Append(sleeps, bidx) ELSE sleeps
    /\ bidx' = bidx + 1
    /\ stage' = "none"
    /\ bpc' = "loop"
    /\ UNCHANGED <<caller, request, locations, delay, stages_run, failed_stage, raised,
                   attempts, bfailed, bresponse, vvars, xvars>>

\* Mutant of BatchFailure: the handler ends the loop instead of going on.
BatchFailureAbort ==
    /\ caller = "batch"
    /\ bpc = "in_location"
    /\ stage = "raised"
    /\ bfailed' = Append(bfailed, <<locations[bidx], raised.msg>>)
    /\ bidx' = Len(locations) + 1
    /\ stage' = "none"
    /\ bpc' = "loop"
    /\ UNCHANGED <<caller, request, locations, delay, stages_run, failed_stage, raised,
                   attempts, bresults, sleeps, bresponse, vvars, xvars>>

\* process_batch, lines 148-151: the exception is caught, the name and the
\* error are kept, and the loop goes on.
BatchFailure ==
    /\ caller = "batch"
    /\ bpc = "in_location"
    /\ stage = "raised"
    /\ bfailed' = Append(bfailed, <<locations[bidx], raised.msg>>)
    /\ bidx' = bidx + 1
    /\ stage' = "none"
    /\ bpc' = "loop"
    /\ UNCHANGED <<caller, request, locations, delay, stages_run, failed_stage, raised,
                   attempts, bresults, sleeps, bresponse, vvars, xvars>>

\* process_batch, lines 153-163: the summary is logged and results returned.
BatchEnd ==
    /\ caller = "batch"
    /\ bpc = "loop"
    /\ bidx > Len(locations)
    /\ bpc' = "done"
    /\ UNCHANGED <<caller, request, locations, delay, bidx, stage, stages_run,
                   failed_stage, raised, attempts, bresults, bfailed, sleeps,
                   bresponse, vvars, xvars>>

\* server.py lines 381-395: the error response of the tool.
AnalysisFailed(req, msg) ==
    [error |-> msg,
     location |-> [name |-> req.location_name,
                   coordinates |-> [latitude |-> req.latitude,
                                    longitude |-> req.longitude]],
     status |-> "failed",
     message |-> "Analysis failed. Please check the coordinates and try again."]

\* server.py lines 244 and 381-395: process_location raised.
ServerFailure ==
    /\ caller = "server"
    /\ bpc = "in_location"
    /\ stage = "raised"
    /\ bresponse' = AnalysisFailed(request, raised.msg)
    /\ stage' = "none"
    /\ bpc' = "done"
    /\ UNCHANGED <<caller, request, locations, delay, bidx, stages_run, failed_stage,
                   raised, attempts, bresults, bfailed, sleeps, vvars, xvars>>

\* server.py lines 245-379: the summary, the pictures and the uploads; any
\* exception of theirs ends in the same error response.
ServerSuccess(ok, msg) ==
    /\ caller = "server"
    /\ bpc = "in_location"
    /\ stage = "returned"
    /\ bresponse' = IF ok THEN [status |-> "ok", location |-> [name |-> locations[1]]]
                    ELSE AnalysisFailed(request, msg)
    /\ stage' = "none"
    /\ bpc' = "done"
    /\ UNCHANGED <<caller, request, locations, delay, bidx, stages_run, failed_stage,
                   raised, attempts, bresults, bfailed, sleeps, vvars, xvars>>

VisionIdle ==
    /\ critical_spots = <<>>
    /\ max_spots = 0
    /\ vpc = "idle"
    /\ tasks = <<>>
    /\ loop = 0
    /\ gather_exc = None
    /\ results = <<>>
    /\ streetview_total_time = 0
    /\ gemini_total_time = 0
    /\ response = None
    /\ vision_calls = <<>>

\* The seconds process_batch waits between two Locations.
Delays == {0, 1}

PipelineInit ==
    /\ caller \in {"batch", "server"}
    /\ IF caller = "batch"
       THEN /\ locations \in SeqsUpTo(LocationNames, MaxLocations)
            /\ delay \in Delays
            /\ request = None
       ELSE /\ locations = <<>>
            /\ delay = 0
            /\ request \in Requests
    /\ bpc = "start"
    /\ bidx = 0
    /\ stage = "none"
    /\ stages_run = <<>>
    /\ failed_stage = "none"
    /\ raised = None
    /\ attempts = <<>>
    /\ bresults = <<>>
    /\ bfailed = <<>>
    /\ sleeps = <<>>
    /\ bresponse = None
    /\ VisionIdle
    /\ OthersIdle

PipelineNext ==
    \/ BatchBegin
    \/ BatchCall
    \/ ServerCall
    \/ StageReturns
    \/ \E msg \in ErrorMessages : StageRaises(msg)
    \/ BatchSuccess
    \/ BatchFailure
    \/ BatchEnd
    \/ ServerFailure
    \/ \E ok \in BOOLEAN, msg \in ErrorMessages : ServerSuccess(ok, msg)

PipelineSpec == PipelineInit /\ [][PipelineNext]_vars

\* ------------------------- GroundLevelDetector.analyze_critical_spots
\* A spot with 'lat' and 'lon', and one without them.
GroundSpot ==
    [lat |-> Num(3), lon |-> Num(101), priority_score |-> Num(82), area_name |-> Str("Nearby")]
GroundSpotNoCoords == [priority_score |-> Num(82), area_name |-> Str("Nearby")]

GroundSpots == {GroundSpot, GroundSpotNoCoords}

\* max_spots as callers give it: None (the default) or a count.
GroundMaxSpots == {None} \cup {Num(n) : n \in 0..MaxSpots}

\* How the panorama download of a spot can end: with the image, with no
\* panorama at the place, or with an exception of the imagery library.
GroundDownloads == {"image", "no_panorama", "raised"}

\* Samples of a box the YOLO model reports: its class and its confidence (in
\* thousandths).
BoxSamples ==
    {[label |-> "Tree", confidence |-> 900],
     [label |-> "tree", confidence |-> 556],
     [label |-> "car",  confidence |-> 800]}

\* Lines 100-122: download_street_view_panorama returns the image, or None
\* when there is no panorama or anything raised.
download_street_view_panorama(download) ==
    IF download = "image" THEN [t |-> "image"] ELSE None

\* label.lower() in ["tree", "trees", "plant", "vegetation", "0"], line 166.
IsTreeLabel(label) == label \in {"Tree", "tree", "trees", "plant", "vegetation", "0"}

\* Lines 142-189: detect_trees_in_image keeps the boxes of a tree class, and
\* returns the empty list when the model or the inference raised.
detect_trees_in_image(image, boxes, detect_ok) ==
    IF detect_ok
    THEN SelectSeq(boxes, LAMBDA box : IsTreeLabel(box.label))
    ELSE <<>>

\* sum(d.confidence for d in detections)
RECURSIVE SumConfidence(_)
SumConfidence(detections) ==
    IF detections = <<>> THEN 0
    ELSE Head(detections).confidence + SumConfidence(Tail(detections))

\* round(x / n, 3) of a sum in thousandths.
RoundedThousandths(x, n) == (2 * x + n) \div (2 * n)

\* analyze_location that takes any downloaded image as a sign of trees.
LocationAnalysisTreesIfImage(lat, lon, image, detections) ==
    IF image = None
    THEN [location |-> [lat |-> lat, lon |-> lon],
          image_downloaded |-> FALSE,
          total_trees |-> 0,
          detections |-> <<>>,
          average_confidence |-> 0,
          has_existing_trees |-> FALSE,
          error |-> "No Street View imagery available"]
    ELSE [location |-> [lat |-> lat, lon |-> lon],
          image_downloaded |-> TRUE,
          total_trees |-> Len(detections),
          detections |-> detections,
          average_confidence |->
              IF Len(detections) > 0
              THEN RoundedThousandths(SumConfidence(detections), Len(detections))
              ELSE 0,
          has_existing_trees |-> TRUE]

\* ground_tree_detector.py lines 217-259: what analyze_location returns for
\* the image (None if there is none) and the detections in it.
LocationAnalysis(lat, lon, image, detections) ==
    IF image = None
    THEN [location |-> [lat |-> lat, lon |-> lon],
          image_downloaded |-> FALSE,
          total_trees |-> 0,
          detections |-> <<>>,
          average_confidence |-> 0,
          has_existing_trees |-> FALSE,
          error |-> "No Street View imagery available"]
    ELSE [location |-> [lat |-> lat, lon |-> lon],
          image_downloaded |-> TRUE,
          total_trees |-> Len(detections),
          detections |-> detections,
          average_confidence |->
              IF Len(detections) > 0
              THEN RoundedThousandths(SumConfidence(detections), Len(detections))
              ELSE 0,
          has_existing_trees |-> Len(detections) > 0]

\* analyze_location, lines 191-259: the download, then the detection on the
\* image if there is one.
analyze_location(lat, lon, download, boxes, detect_ok) ==
    LET image == download_street_view_panorama(download) IN
    LocationAnalysis(lat, lon, image,
                     IF image = None THEN <<>>
                     ELSE detect_trees_in_image(image, boxes, detect_ok))

\* Lines 304-310: the spot metadata added to the analysis.
GroundSpotInfo(spot, i) ==
    [spot_number |-> i + 1,
     priority_score |-> Get(spot, "priority_score"),
     vegetation_deficit |-> Get(spot, "vegetation_deficit"),
     bare_land_pct |-> Get(spot, "bare_land_pct"),
     area_name |-> Get(spot, "area_name")]

\* Line 304: analysis['spot_info'] = {...}
WithSpotInfo(analysis, info) ==
    [k \in DOMAIN analysis \cup {"spot_info"} |->
        IF k = "spot_info" THEN info ELSE analysis[k]]

\* Lines 282-287: `if max_spots:` takes the slice, anything falsy takes all.
SpotsToAnalyze(spots, m) ==
    IF Truthy(m) THEN SliceTo(spots, m.n) ELSE spots

\* Lines 282-289: the spots to analyze are chosen.
GroundSelect ==
    /\ gpc = "start"
    /\ spots_to_analyze' = SpotsToAnalyze(g_spots, g_max)
    /\ g_results' = <<>>
    /\ g_i' = 0
    /\ gpc' = "loop"
    /\ UNCHANGED <<g_spots, g_max, g_analyzed, vvars, bvars, avars, rvars, tvars>>

\* Lines 290-296: a spot without lat or lon is skipped.
GroundSkip ==
    /\ gpc = "loop"
    /\ g_i < Len(spots_to_analyze)
    /\ LET spot == spots_to_analyze[g_i + 1]
       IN  Get(spot, "lat") = None \/ Get(spot, "lon") = None
    /\ g_i' = g_i + 1
    /\ UNCHANGED <<g_spots, g_max, gpc, spots_to_analyze, g_results, g_analyzed, vvars, bvars, avars, rvars, tvars>>

\* Lines 298-312: the spot is analyzed and its result kept.
GroundAnalyze(download, boxes, detect_ok) ==
    /\ gpc = "loop"
    /\ g_i < Len(spots_to_analyze)
    /\ LET spot == spots_to_analyze[g_i + 1]
       IN  /\ Get(spot, "lat") # None
           /\ Get(spot, "lon") # None
           /\ g_results' = Append(g_results,
                  WithSpotInfo(analyze_location(spot.lat, spot.lon, download, boxes, detect_ok),
                               GroundSpotInfo(spot, g_i)))
    /\ g_analyzed' = Append(g_analyzed, g_i + 1)
    /\ g_i' = g_i + 1
    /\ UNCHANGED <<g_spots, g_max, gpc, spots_to_analyze, vvars, bvars, avars, rvars, tvars>>

\* Lines 314-315: the results are returned.
GroundReturn ==
    /\ gpc = "loop"
    /\ g_i = Len(spots_to_analyze)
    /\ gpc' = "done"
    /\ UNCHANGED <<g_spots, g_max, spots_to_analyze, g_i, g_results, g_analyzed, vvars, bvars, avars, rvars, tvars>>

GroundInit ==
    /\ g_spots \in SeqsUpTo(GroundSpots, MaxSpots)
    /\ g_max \in GroundMaxSpots
    /\ gpc = "start"
    /\ spots_to_analyze = <<>>
    /\ g_i = 0
    /\ g_results = <<>>
    /\ g_analyzed = <<>>
    /\ VisionIdle
    /\ BatchIdle
    /\ AreasIdle
    /\ RasterIdle
    /\ ToolIdle

GroundNext ==
    \/ GroundSelect
    \/ GroundSkip
    \/ \E download \in GroundDownloads, boxes \in SeqsUpTo(BoxSamples, MaxTrees),
          detect_ok \in BOOLEAN :
          GroundAnalyze(download, boxes, detect_ok)
    \/ GroundReturn

GroundSpec == GroundInit /\ [][GroundNext]_vars

\* ------------------------ get_areas_where_more_tree_can_be_planted
\* The plot sizes (m2) OSM answers with: a shrub-sized and a tree-sized one.
AreaSamples == {3, 60}

\* Lines 94-105: the tree suggested for a plot of area_m2 square metres.
suggest_tree(area_m2) ==
    IF area_m2 < 5 THEN "Hibiscus"
    ELSE IF area_m2 < 20 THEN "Plumeria"
    ELSE IF area_m2 < 50 THEN "Frangipani"
    ELSE IF area_m2 < 100 THEN "Angsana"
    ELSE "Rain Tree"

RECURSIVE SumAreas(_)
SumAreas(areas) == IF areas = <<>> THEN 0 ELSE Head(areas) + SumAreas(Tail(areas))

SuggestedAs(tree_type, area_m2) == suggest_tree(area_m2) = tree_type

\* Lines 173-184: count and total area per suggested tree.
TreeSuggestions(areas) ==
    [tree_type \in {suggest_tree(areas[k]) : k \in DOMAIN areas} |->
        LET filtered_areas == SelectSeq(areas, LAMBDA a : SuggestedAs(tree_type, a))
        IN  [count |-> Len(filtered_areas), total_area_m2 |-> SumAreas(filtered_areas)]]

\* Mutant of AreasError: the path of the map is kept in the error result.
AreasErrorWithPath(msg) ==
    [success |-> FALSE, error |-> msg, map_file_path |-> Str("/tmp/map.html")]

\* Lines 204-210: the result of the outer handler.
AreasError(msg) ==
    [success |-> FALSE, error |-> msg, map_file_path |-> None]

\* Lines 186-202: the result of a run that came through.
AreasSuccess(areas, trees, original, path) ==
    [success |-> TRUE,
     map_file_path |-> path,
     summary |-> [total_plantable_areas |-> Len(areas),
                  total_plantable_area_m2 |-> IF areas # <<>> THEN SumAreas(areas) ELSE 0,
                  existing_trees_count |-> trees,
                  original_areas_found |-> original,
                  tree_suggestions |-> TreeSuggestions(areas)],
     bounding_box |-> [north |-> "north", south |-> "south", east |-> "east", west |-> "west"]]

\* Lines 204-210: a step raised outside the two inner handlers.
AreasFails(step, msg) ==
    /\ a_failed' = a_failed \cup {step}
    /\ a_result' = AreasError(msg)
    /\ apc' = "returned"
    /\ UNCHANGED <<plantable_areas, existing_trees, original_count, output_path>>

\* Lines 46-63: the plantable areas are fetched; the inner handler logs a
\* failure and leaves the empty frame made before the try.
AreasFetchAreas(ok, areas) ==
    /\ apc = "fetch_areas"
    /\ IF ok THEN /\ plantable_areas' = areas
                  /\ a_failed' = a_failed
       ELSE /\ plantable_areas' = <<>>
            /\ a_failed' = a_failed \cup {"fetch_areas"}
    /\ apc' = "fetch_trees"
    /\ UNCHANGED <<existing_trees, original_count, output_path, a_result, vvars, bvars, gvars, rvars, tvars>>

\* Lines 65-82: the existing trees are fetched, in the same way, and the
\* areas found are counted.
AreasFetchTrees(ok, trees) ==
    /\ apc = "fetch_trees"
    /\ IF ok THEN /\ existing_trees' = trees
                  /\ a_failed' = a_failed
       ELSE /\ existing_trees' = 0
            /\ a_failed' = a_failed \cup {"fetch_trees"}
    /\ original_count' = Len(plantable_areas)
    /\ apc' = "overlay"
    /\ UNCHANGED <<plantable_areas, output_path, a_result, vvars, bvars, gvars, rvars, tvars>>

\* Lines 83-92: the buffered trees are cut out of the areas, when there are
\* both: `kept` of the areas are left.
AreasOverlay(ok, kept) ==
    /\ apc = "overlay"
    /\ IF existing_trees = 0 \/ plantable_areas = <<>>
       THEN /\ apc' = "project"
            /\ UNCHANGED <<plantable_areas, existing_trees, original_count, output_path,
                           a_failed, a_result>>
       ELSE IF ok
       THEN /\ kept <= Len(plantable_areas)
            /\ plantable_areas' = SubSeq(plantable_areas, 1, kept)
            /\ apc' = "project"
            /\ UNCHANGED <<existing_trees, original_count, output_path, a_failed, a_result>>
       ELSE AreasFails("overlay", "overlay failed")
    /\ UNCHANGED <<vvars, bvars, gvars, rvars, tvars>>

\* Lines 107-128: the sizes, the suggestions and the conversions to WGS84.
\* The frame made at line 46 has no CRS, and to_crs (line 115) refuses a frame
\* without one: after a failed fetch of the areas this step raises ValueError.
\* The trees' frame is only converted when it has rows (line 127).
AreasProject(ok) ==
    /\ apc = "project"
    /\ IF ok /\ "fetch_areas" \notin a_failed
       THEN /\ apc' = "map"
            /\ UNCHANGED <<plantable_areas, existing_trees, original_count, output_path,
                           a_failed, a_result>>
       ELSE AreasFails("project", "Cannot transform naive geometries")
    /\ UNCHANGED <<vvars, bvars, gvars, rvars, tvars>>

\* Lines 119-165: the map is drawn and saved to a temporary file.
AreasMap(ok) ==
    /\ apc = "map"
    /\ IF ok
       THEN /\ output_path' = Str("/tmp/map.html")
            /\ apc' = "summary"
            /\ UNCHANGED <<plantable_areas, existing_trees, original_count, a_failed, a_result>>
       ELSE AreasFails("map", "map failed")
    /\ UNCHANGED <<vvars, bvars, gvars, rvars, tvars>>

\* Lines 167-202: the summary and the result.
AreasSummary ==
    /\ apc = "summary"
    /\ a_result' = AreasSuccess(plantable_areas, existing_trees, original_count, output_path)
    /\ apc' = "returned"
    /\ UNCHANGED <<plantable_areas, existing_trees, original_count, output_path, a_failed,
                   vvars, bvars, gvars, rvars, tvars>>

AreasInit ==
    /\ apc = "fetch_areas"
    /\ plantable_areas = <<>>
    /\ existing_trees = 0
    /\ original_count = 0
    /\ output_path = None
    /\ a_failed = {}
    /\ a_result = None
    /\ VisionIdle
    /\ BatchIdle
    /\ GroundIdle
    /\ RasterIdle
    /\ ToolIdle

AreasNext ==
    \/ \E ok \in BOOLEAN, areas \in SeqsUpTo(AreaSamples, MaxAreas) : AreasFetchAreas(ok, areas)
    \/ \E ok \in BOOLEAN, trees \in 0..MaxAreas : AreasFetchTrees(ok, trees)
    \/ \E ok \in BOOLEAN, kept \in 0..MaxAreas : AreasOverlay(ok, kept)
    \/ \E ok \in BOOLEAN : AreasProject(ok)
    \/ \E ok \in BOOLEAN : AreasMap(ok)
    \/ AreasSummary

AreasSpec == AreasInit /\ [][AreasNext]_vars

\* ------------------------------------------------ the raster steps
\* process_location, steps 3 to 5 (processor.py), on the raster of one
\* Location.  The modules these steps call (core.detector, core.mask_generator,
\* core.priority_calculator) are not part of the sources at hand: detect,
\* calculate_shadow_intensity and calculate are written from the engine's
\* design document (FeatureDetector, PriorityScorer), the steps that call them
\* and store what they return are written from processor.py.

\* The pixels of the raster.  Every operation below works pixel by pixel.
Pixels == {"p1", "p2"}

\* Samples of an RGB pixel: dark foliage, plain shade, a lawn in the sun,
\* pavement in the sun, a dark red roof, and a black pixel.
PixelSamples ==
    {[red |-> 30,  green |-> 40,  blue |-> 30],
     [red |-> 40,  green |-> 40,  blue |-> 40],
     [red |-> 40,  green |-> 200, blue |-> 40],
     [red |-> 200, green |-> 200, blue |-> 200],
     [red |-> 40,  green |-> 0,   blue |-> 0],
     [red |-> 0,   green |-> 0,   blue |-> 0]}

Images == [Pixels -> PixelSamples]

\* Ratios and scores are kept in thousandths, so that 79.999 is 79999.
Scale == 1000

\* The fixed thresholds of the detector (an index of 0.1, a brightness of 80
\* out of 255, a saturation of 0.3).
NDVI_THRESHOLD == 100
SHADOW_BRIGHTNESS_THRESHOLD == 80
SHADOW_SATURATION_THRESHOLD == 300

\* The normalized difference of the green and red channels
\* (Green - Red) / (Green + Red); 0 where both channels are 0.
Ndvi(px) ==
    IF px.green + px.red = 0 THEN 0
    ELSE ((px.green - px.red) * Scale) \div (px.green + px.red)

Brightness(px) == Max(px.red, Max(px.green, px.blue))

Saturation(px) ==
    IF Brightness(px) = 0 THEN 0
    ELSE ((Brightness(px) - Min(px.red, Min(px.green, px.blue))) * Scale) \div Brightness(px)

\* VegetationDetector.detect: (shadow_mask, vegetation_mask, ndvi).  A pixel
\* is vegetated when its index is above the threshold; it is shadowed when it
\* is dark and of low saturation and not already flagged vegetated.
detect(satellite_img) ==
    LET ndvi == [p \in Pixels |-> Ndvi(satellite_img[p])]
        vegetation_mask == [p \in Pixels |-> ndvi[p] > NDVI_THRESHOLD]
        shadow_mask ==
            [p \in Pixels |->
                /\ Brightness(satellite_img[p]) < SHADOW_BRIGHTNESS_THRESHOLD
                /\ Saturation(satellite_img[p]) < SHADOW_SATURATION_THRESHOLD
                /\ ~vegetation_mask[p]]
    IN  <<shadow_mask, vegetation_mask, ndvi>>

\* VegetationDetector.calculate_shadow_intensity: the fraction of the raster
\* that is shadowed.
calculate_shadow_intensity(satellite_img) ==
    (Cardinality({p \in Pixels : detect(satellite_img)[1][p]}) * Scale) \div Cardinality(Pixels)

\* _detect_features with both masks taken from the first element of the tuple.
DetectedFeaturesShadowTwice(loc) ==
    LET result == detect(loc.satellite_img) IN
    [shadow_mask      |-> result[1],
     vegetation_mask  |-> result[1],
     ndvi             |-> result[3],
     shadow_intensity |-> calculate_shadow_intensity(loc.satellite_img)] @@ loc

\* The Location after _detect_features: the tuple detect returns is unpacked
\* into shadow_mask, vegetation_mask, ndvi, and shadow_intensity is added.
DetectedFeatures(loc) ==
    LET result == detect(loc.satellite_img) IN
    [shadow_mask      |-> result[1],
     vegetation_mask  |-> result[2],
     ndvi             |-> result[3],
     shadow_intensity |-> calculate_shadow_intensity(loc.satellite_img)] @@ loc

\* The Location the raster steps work on (coordinates in thousandths of a
\* degree).
LocationSample == [name |-> "menara_lgb", lat |-> 3138, lon |-> 101630]

\* Half the width of a pixel on the ground, in the unit of lat and lon.
HALF_PIXEL == 3

\* GeometryTransformer.calculate_bounds: (min_lon, min_lat, max_lon, max_lat)
\* around the centre, from the pixel dimensions at a fixed ground resolution.
calculate_bounds(lat, lon, size) ==
    <<lon - size * HALF_PIXEL, lat - size * HALF_PIXEL,
      lon + size * HALF_PIXEL, lat + size * HALF_PIXEL>>

\* The traffic tiers filter_streets_by_type sorts streets into.
Tiers == {"pedestrian", "low_traffic", "medium_traffic", "high_traffic"}

\* Samples of a street as OSM returns it: its tier and where it runs, in
\* metres east of the centre of the raster.
StreetSamples ==
    {[highway |-> "pedestrian",     x |-> 4],
     [highway |-> "low_traffic",    x |-> 1],
     [highway |-> "low_traffic",    x |-> 16],
     [highway |-> "medium_traffic", x |-> 17],
     [highway |-> "high_traffic",   x |-> 15],
     [highway |-> "high_traffic",   x |-> 40]}

StreetSets == {S \in SUBSET StreetSamples : Cardinality(S) <= MaxStreets}

\* GeometryTransformer.align: every vertex scaled by 1.95 about the centre and
\* moved 10 m to the west.
align(geometries, lat, lon) ==
    {[highway |-> g.highway, x |-> (195 * g.x) \div 100 - 10] : g \in geometries}

\* GeometryTransformer.filter_streets_by_type: the streets of every tier.
filter_streets_by_type(streets) ==
    [tier \in Tiers |-> {g \in streets : g.highway = tier}]

\* Where the pixels lie, in metres east of the centre of the raster.
PixelEast == [p \in Pixels |-> IF p = "p1" THEN 0 ELSE 22]

\* The pixel is within buffer_m metres of one of the geometries.
WithinBuffer(geometries, p, buffer_m) ==
    \E g \in geometries :
        LET d == g.x - PixelEast[p] IN (IF d < 0 THEN -d ELSE d) <= buffer_m

\* MaskGenerator.create_sidewalk_mask: the two street layers it is given,
\* buffered by buffer_m and unioned.
create_sidewalk_mask(pedestrian, low_traffic, satellite_img, bounds, buffer_m) ==
    [p \in Pixels |-> WithinBuffer(pedestrian \cup low_traffic, p, buffer_m)]

\* MaskGenerator.create_comprehensive_street_mask: the four layers it is
\* given, each with the buffer of its tier (5, 10, 15 and 25 m), unioned.
create_comprehensive_street_mask(pedestrian, low_traffic, medium_traffic, high_traffic, satellite_img, bounds) ==
    [p \in Pixels |->
        \/ WithinBuffer(pedestrian, p, 5)
        \/ WithinBuffer(low_traffic, p, 10)
        \/ WithinBuffer(medium_traffic, p, 15)
        \/ WithinBuffer(high_traffic, p, 25)]

\* The Location after _download_data.  The buildings and the amenities are
\* left out: the building mask and the component scores are inputs of steps
\* 4 and 5 below.
DownloadedData(loc, satellite_img, streets_raw) ==
    [satellite_img |-> satellite_img,
     bounds        |-> calculate_bounds(loc.lat, loc.lon, Cardinality(DOMAIN satellite_img)),
     streets_raw   |-> streets_raw] @@ loc

\* The Location after _align_geometries: the aligned streets and the four
\* lists they are sorted into.
AlignedGeometries(loc) ==
    LET streets_aligned == align(loc.streets_raw, loc.lat, loc.lon)
        street_categories == filter_streets_by_type(streets_aligned)
    IN  [streets_aligned        |-> streets_aligned,
         pedestrian_streets     |-> street_categories["pedestrian"],
         low_traffic_streets    |-> street_categories["low_traffic"],
         medium_traffic_streets |-> street_categories["medium_traffic"],
         high_traffic_streets   |-> street_categories["high_traffic"]] @@ loc

\* The street mask _generate_masks asks for: all four lists.
StreetMaskOf(loc) ==
    create_comprehensive_street_mask(loc.pedestrian_streets, loc.low_traffic_streets,
                                     loc.medium_traffic_streets, loc.high_traffic_streets,
                                     loc.satellite_img, loc.bounds)

\* The sidewalk mask asked for with the medium-traffic list in second place.
SidewalkMaskOfMediumTraffic(loc) ==
    create_sidewalk_mask(loc.pedestrian_streets, loc.medium_traffic_streets,
                         loc.satellite_img, loc.bounds, 5)

\* The sidewalk mask _generate_masks asks for: the pedestrian and the
\* low-traffic list, buffer_m=5.
SidewalkMaskOf(loc) ==
    create_sidewalk_mask(loc.pedestrian_streets, loc.low_traffic_streets,
                         loc.satellite_img, loc.bounds, 5)

\* The building masks the mask generator can return: any.
Masks == [Pixels -> BOOLEAN]

\* _generate_masks that also recomputes the bounds, for a grid of one more
\* pixel.
GeneratedMasksRebounding(loc, building_mask, street_mask, sidewalk_mask) ==
    [building_mask |-> building_mask,
     street_mask   |-> street_mask,
     sidewalk_mask |-> sidewalk_mask,
     bounds        |-> calculate_bounds(loc.lat, loc.lon, Cardinality(Pixels) + 1)] @@ loc

\* The Location after _generate_masks.
GeneratedMasks(loc, building_mask, street_mask, sidewalk_mask) ==
    [building_mask |-> building_mask,
     street_mask   |-> street_mask,
     sidewalk_mask |-> sidewalk_mask] @@ loc

\* Samples of the four component scores of a pixel, each within its range
\* (35, 25, 20, 10 points), whose sums sit on and just under every band limit.
ComponentSamples ==
    {[sidewalk |-> 35000, building |-> 25000, sun |-> 20000, amenity |-> 10000],
     [sidewalk |-> 35000, building |-> 25000, sun |-> 20000, amenity |-> 0],
     [sidewalk |-> 35000, building |-> 25000, sun |-> 19999, amenity |-> 0],
     [sidewalk |-> 35000, building |-> 25000, sun |-> 0,     amenity |-> 0],
     [sidewalk |-> 35000, building |-> 4999,  sun |-> 20000, amenity |-> 0],
     [sidewalk |-> 35000, building |-> 5000,  sun |-> 0,     amenity |-> 0],
     [sidewalk |-> 0,     building |-> 10000, sun |-> 19999, amenity |-> 10000],
     [sidewalk |-> 0,     building |-> 0,     sun |-> 0,     amenity |-> 0]}

Components == [Pixels -> ComponentSamples]

\* The composite score of a pixel before exclusion.
Composite(c) == c.sidewalk + c.building + c.sun + c.amenity

\* The band limits: critical 80-100, high 60-79, medium 40-59, low under 40.
CRITICAL_THRESHOLD == 80 * Scale
HIGH_THRESHOLD == 60 * Scale
MEDIUM_THRESHOLD == 40 * Scale

\* PriorityCalculator.calculate.  The component scores it derives from the
\* sidewalk mask, the buildings, the shadow intensity and the amenities are
\* the argument `components`; a pixel inside the building, street or
\* vegetation mask scores 0 whatever its components are.
calculate(loc, shadow_intensity, sidewalk_mask, building_mask, street_mask, vegetation_mask, components) ==
    LET score ==
            [p \in Pixels |->
                IF building_mask[p] \/ street_mask[p] \/ vegetation_mask[p]
                THEN 0
                ELSE Composite(components[p])]
    IN  [enhanced_priority_score |-> score,
         critical_priority  |-> [p \in Pixels |-> score[p] >= CRITICAL_THRESHOLD],
         high_priority      |-> [p \in Pixels |-> score[p] >= HIGH_THRESHOLD
                                                  /\ score[p] < CRITICAL_THRESHOLD],
         medium_priority    |-> [p \in Pixels |-> score[p] >= MEDIUM_THRESHOLD
                                                  /\ score[p] < HIGH_THRESHOLD],
         low_priority       |-> [p \in Pixels |-> score[p] < MEDIUM_THRESHOLD],
         sidewalk_component |-> [p \in Pixels |-> components[p].sidewalk],
         building_component |-> [p \in Pixels |-> components[p].building],
         sun_component      |-> [p \in Pixels |-> components[p].sun],
         amenity_component  |-> [p \in Pixels |-> components[p].amenity]]

\* The call with the sidewalk mask and the building mask in each other's place.
PriorityResultsMasksSwapped(loc, components) ==
    calculate(loc, loc.shadow_intensity, loc.building_mask, loc.sidewalk_mask,
              loc.street_mask, loc.vegetation_mask, components)

\* The call _calculate_priority makes: the Location's own shadow intensity and
\* masks, in the order sidewalk, building, street, vegetation.
PriorityResults(loc, components) ==
    calculate(loc, loc.shadow_intensity, loc.sidewalk_mask, loc.building_mask,
              loc.street_mask, loc.vegetation_mask, components)

\* The store with high_priority read from the key 'critical_priority'.
StoredPriorityHighFromCritical(loc, priority_results) ==
    [enhanced_priority_score |-> priority_results.enhanced_priority_score,
     critical_priority  |-> priority_results.critical_priority,
     high_priority      |-> priority_results.critical_priority,
     medium_priority    |-> priority_results.medium_priority,
     low_priority       |-> priority_results.low_priority,
     sidewalk_component |-> priority_results.sidewalk_component,
     building_component |-> priority_results.building_component,
     sun_component      |-> priority_results.sun_component,
     amenity_component  |-> priority_results.amenity_component] @@ loc

\* The Location after _calculate_priority stored the results, key by key.
StoredPriority(loc, priority_results) ==
    [enhanced_priority_score |-> priority_results.enhanced_priority_score,
     critical_priority  |-> priority_results.critical_priority,
     high_priority      |-> priority_results.high_priority,
     medium_priority    |-> priority_results.medium_priority,
     low_priority       |-> priority_results.low_priority,
     sidewalk_component |-> priority_results.sidewalk_component,
     building_component |-> priority_results.building_component,
     sun_component      |-> priority_results.sun_component,
     amenity_component  |-> priority_results.amenity_component] @@ loc

\* Step 1.
DownloadData(satellite_img, streets_raw) ==
    /\ rpc = "download"
    /\ location' = DownloadedData(location, satellite_img, streets_raw)
    /\ rpc' = "align"
    /\ UNCHANGED <<vvars, bvars, gvars, avars, tvars>>

\* Step 2.
AlignGeometries ==
    /\ rpc = "align"
    /\ location' = AlignedGeometries(location)
    /\ rpc' = "detect"
    /\ UNCHANGED <<vvars, bvars, gvars, avars, tvars>>

\* Step 3.
DetectFeatures ==
    /\ rpc = "detect"
    /\ location' = DetectedFeatures(location)
    /\ rpc' = "mask"
    /\ UNCHANGED <<vvars, bvars, gvars, avars, tvars>>

\* Step 4.
GenerateMasks(building_mask) ==
    /\ rpc = "mask"
    /\ location' = GeneratedMasks(location, building_mask, StreetMaskOf(location),
                                  SidewalkMaskOf(location))
    /\ rpc' = "score"
    /\ UNCHANGED <<vvars, bvars, gvars, avars, tvars>>

\* Step 5.
CalculatePriority(components) ==
    /\ rpc = "score"
    /\ location' = StoredPriority(location, PriorityResults(location, components))
    /\ rpc' = "visualize"
    /\ UNCHANGED <<vvars, bvars, gvars, avars, tvars>>

\* Step 6: the pictures and the summary file are written; the Location is
\* only read.
Visualize ==
    /\ rpc = "visualize"
    /\ rpc' = "returned"
    /\ UNCHANGED <<location, vvars, bvars, gvars, avars, tvars>>

\* The Location as process_location gets it.
RasterInit ==
    /\ rpc = "download"
    /\ location = LocationSample
    /\ VisionIdle
    /\ BatchIdle
    /\ GroundIdle
    /\ AreasIdle
    /\ ToolIdle

RasterNext ==
    \/ \E satellite_img \in Images, streets_raw \in StreetSets :
          DownloadData(satellite_img, streets_raw)
    \/ AlignGeometries
    \/ DetectFeatures
    \/ \E building_mask \in Masks : GenerateMasks(building_mask)
    \/ \E components \in Components : CalculatePriority(components)
    \/ Visualize

RasterSpec == RasterInit /\ [][RasterNext]_vars

\* ------------------------------------------- the aerial analysis tool
\* analyze_tree_planting_opportunities (server.py) with get_pipeline,
\* upload_to_gcs and the globals they share.  The tool is a plain function:
\* a call runs from its first line to its return before the next call starts.
\* ResultVisualizer (core/visualizer.py) is not part of the sources at hand;
\* create_summary_statistics is written from the engine's design document
\* (PriorityScorer, spot extraction).

\* The values GOOGLE_MAPS_API_KEY can have in the environment.
ApiKeys == {None, Str(""), Str("key-A"), Str("key-B")}

\* The spot list is capped at the top 5.
SPOT_CAP == 5

\* The preview loop runs over critical_spots[:5].
PREVIEW_SPOTS == 5

PipelineObject(k) == [t |-> "pipeline", id |-> k]
VisualizerObject == [t |-> "visualizer"]
StorageClient == [t |-> "client"]
SigningCredentials == [t |-> "credentials"]

\* The spot of the k-th critical region, by descending score.
PrioritySpot(k, req) ==
    [spot_id |-> k,
     coordinates |-> [latitude |-> req.latitude, longitude |-> req.longitude + k],
     priority_score |-> 100 - k]

\* ResultVisualizer.create_summary_statistics for a Location in which n
\* critical regions were found: one spot per region, the list capped.
create_summary_statistics(name, req, n) ==
    [location |-> [name |-> name,
                   coordinates |-> [latitude |-> req.latitude,
                                    longitude |-> req.longitude]],
     critical_priority_spots |-> [k \in 1..Min(n, SPOT_CAP) |-> PrioritySpot(k, req)],
     priority_distribution |-> [critical_regions |-> n]]

\* The Static Maps URL of the preview of spot number i + 1.
StaticMapUrl(spot, i, key) ==
    [url    |-> "https://maps.googleapis.com/maps/api/staticmap",
     center |-> <<spot.coordinates.latitude, spot.coordinates.longitude>>,
     label  |-> i + 1,
     key    |-> key.s]

\* The preview loop that appends an entry per preview to the list.
WithPreviewsAppended(summary, key) ==
    LET spots == summary.critical_priority_spots IN
    IF Truthy(key) /\ spots # <<>>
    THEN [summary EXCEPT !.critical_priority_spots =
            spots \o
            [k \in 1..Min(Len(spots), PREVIEW_SPOTS) |->
                [preview_image_url |-> StaticMapUrl(spots[k], k - 1, key),
                 preview_note      |-> k]]]
    ELSE summary

\* server.py lines 313-337: with a key and at least one spot, the first five
\* spot dicts of the summary get preview_image_url and preview_note.
WithPreviews(summary, key) ==
    LET spots == summary.critical_priority_spots IN
    IF Truthy(key) /\ spots # <<>>
    THEN [summary EXCEPT !.critical_priority_spots =
            [k \in DOMAIN spots |->
                IF k <= PREVIEW_SPOTS
                THEN [preview_image_url |-> StaticMapUrl(spots[k], k - 1, key),
                      preview_note      |-> k] @@ spots[k]
                ELSE spots[k]]]
    ELSE summary

\* Where an upload_to_gcs call can fail.  "credentials" is the loading of the
\* signing key, which get_signing_credentials swallows.
UploadFailures == {"none", "client", "bucket", "upload", "credentials", "signing"}

\* The project the bucket is named after: from the environment or the
\* metadata server, else the one written in the code.
ProjectId(project_found) ==
    IF project_found THEN "env-project" ELSE "us-con-gcp-sbx-0001190-100925"

\* upload_to_gcs, lines 82-140: what it returns.
upload_to_gcs(local_path, blob_name, project_found, fail_at) ==
    CASE fail_at = "none" ->
            [kind |-> "signed_url", bucket |-> ProjectId(project_found), blob |-> blob_name]
      [] fail_at = "credentials" ->
            [kind |-> "saved_unsigned", bucket |-> ProjectId(project_found), blob |-> blob_name]
      [] OTHER ->
            [kind |-> "saved_locally", path |-> local_path]

\* get_storage_client, lines 63-68, as upload_to_gcs leaves the global.
StorageClientAfter(client, fail_at) ==
    IF client = None /\ fail_at = "client" THEN None ELSE StorageClient

\* get_signing_credentials, lines 35-60, as upload_to_gcs leaves the global:
\* the call is reached only when the upload went through.
SigningCredentialsAfter(credentials, fail_at) ==
    IF fail_at \in {"none", "signing"} THEN SigningCredentials ELSE credentials

\* A failure the cached global rules out cannot happen.
UploadCanFail(fail_at) ==
    /\ fail_at = "client" => _storage_client = None
    /\ fail_at = "credentials" => _signing_credentials = None

\* get_pipeline, lines 143-153: the globals after the call, whether it raised,
\* and what it returned.
GetPipelineOutcome(pipeline, visualizer, constructed, pipeline_ok, visualizer_ok) ==
    IF pipeline # None
    THEN [_pipeline |-> pipeline, _visualizer |-> visualizer,
          constructed |-> constructed, raised |-> FALSE]
    ELSE IF ~pipeline_ok
    THEN [_pipeline |-> None, _visualizer |-> visualizer,
          constructed |-> constructed, raised |-> TRUE]
    ELSE IF ~visualizer_ok
    THEN [_pipeline |-> PipelineObject(constructed + 1), _visualizer |-> visualizer,
          constructed |-> constructed + 1, raised |-> TRUE]
    ELSE [_pipeline |-> PipelineObject(constructed + 1), _visualizer |-> VisualizerObject,
          constructed |-> constructed + 1, raised |-> FALSE]

\* server.py lines 358-379: the summary with the files and the URLs.
FinishedSummary(summary, name, url_a, url_c) ==
    [output_files |->
        [analysis_visualization     |-> <<name, "analysis.png">>,
         analysis_visualization_url |-> url_a,
         component_breakdown        |-> <<name, "components.png">>,
         component_breakdown_url    |-> url_c,
         json_summary               |-> <<name, "summary.json">>],
     visualization_urls |-> [analysis_map |-> url_a]] @@ summary

\* The name of the Location of the call in progress.
ToolLocationName == NormalisedName(t_request.location_name)

\* The tool's except clause, lines 381-395.
ToolFails(msg) ==
    /\ t_response' = AnalysisFailed(t_request, msg)
    /\ tpc' = "done"

\* Lines 217-233: a call of the tool.
ToolCall(req) ==
    /\ tpc \in {"idle", "done"}
    /\ t_calls < MaxRequests
    /\ t_calls' = t_calls + 1
    /\ t_request' = req
    /\ regions' = 0
    /\ summary_data' = None
    /\ analysis_url' = None
    /\ component_url' = None
    /\ t_uploads' = <<>>
    /\ t_response' = None
    /\ tpc' = "get_pipeline"
    /\ UNCHANGED <<_pipeline, _visualizer, _storage_client, _signing_credentials, api_key,
                   t_constructed, t_pipelines, vvars, bvars, gvars, avars, rvars>>

\* Line 237 and get_pipeline.
GetPipeline(pipeline_ok, visualizer_ok) ==
    LET out == GetPipelineOutcome(_pipeline, _visualizer, t_constructed,
                                  pipeline_ok, visualizer_ok) IN
    /\ tpc = "get_pipeline"
    /\ _pipeline' = out._pipeline
    /\ _visualizer' = out._visualizer
    /\ t_constructed' = out.constructed
    /\ IF out.raised
       THEN /\ ToolFails("pipeline initialisation failed")
            /\ UNCHANGED t_pipelines
       ELSE /\ t_pipelines' = Append(t_pipelines, <<out._pipeline, out._visualizer>>)
            /\ tpc' = "process"
            /\ UNCHANGED t_response
    /\ UNCHANGED <<_storage_client, _signing_credentials, api_key, t_request, t_calls,
                   regions, summary_data, analysis_url, component_url, t_uploads,
                   vvars, bvars, gvars, avars, rvars>>

\* Line 244: process_location returns the Location, with n critical regions,
\* or raises.
ToolProcess(ok, n) ==
    /\ tpc = "process"
    /\ IF ok
       THEN /\ regions' = n
            /\ tpc' = "summary"
            /\ UNCHANGED t_response
       ELSE /\ ToolFails("timeout")
            /\ UNCHANGED regions
    /\ UNCHANGED <<_pipeline, _visualizer, _storage_client, _signing_credentials, api_key,
                   t_request, t_calls, t_constructed, t_pipelines, summary_data,
                   analysis_url, component_url, t_uploads, vvars, bvars, gvars, avars, rvars>>

\* Lines 249-304: the summary, the two pictures and the JSON file.  A
\* visualizer that is None makes the first of these calls raise.
ToolSummary(ok) ==
    /\ tpc = "summary"
    /\ IF Last(t_pipelines)[2] = None
       THEN /\ ToolFails("'NoneType' object has no attribute 'create_summary_statistics'")
            /\ UNCHANGED summary_data
       ELSE IF ~ok
       THEN /\ ToolFails("invalid data")
            /\ UNCHANGED summary_data
       ELSE /\ summary_data' = create_summary_statistics(ToolLocationName, t_request, regions)
            /\ tpc' = "previews"
            /\ UNCHANGED t_response
    /\ UNCHANGED <<_pipeline, _visualizer, _storage_client, _signing_credentials, api_key,
                   t_request, t_calls, t_constructed, t_pipelines, regions,
                   analysis_url, component_url, t_uploads, vvars, bvars, gvars, avars, rvars>>

\* Lines 311-337.
ToolPreviews ==
    /\ tpc = "previews"
    /\ summary_data' = WithPreviews(summary_data, api_key)
    /\ tpc' = "upload_analysis"
    /\ UNCHANGED <<_pipeline, _visualizer, _storage_client, _signing_credentials, api_key,
                   t_request, t_calls, t_constructed, t_pipelines, regions,
                   analysis_url, component_url, t_uploads, t_response,
                   vvars, bvars, gvars, avars, rvars>>

\* Mutant of ToolUploadAnalysis: a failed upload escapes into the tool's
\* except clause.
ToolUploadAnalysisRaising(project_found, fail_at) ==
    /\ tpc = "upload_analysis"
    /\ UploadCanFail(fail_at)
    /\ IF fail_at \in {"none", "credentials"}
       THEN /\ analysis_url' = upload_to_gcs(<<ToolLocationName, "analysis.png">>,
                                             <<"analysis", ToolLocationName, "analysis.png">>,
                                             project_found, fail_at)
            /\ tpc' = "upload_components"
            /\ UNCHANGED t_response
       ELSE /\ ToolFails("upload failed")
            /\ UNCHANGED analysis_url
    /\ _storage_client' = StorageClientAfter(_storage_client, fail_at)
    /\ _signing_credentials' = SigningCredentialsAfter(_signing_credentials, fail_at)
    /\ t_uploads' = Append(t_uploads, fail_at)
    /\ UNCHANGED <<_pipeline, _visualizer, api_key, t_request, t_calls, t_constructed,
                   t_pipelines, regions, summary_data, component_url,
                   vvars, bvars, gvars, avars, rvars>>

\* Lines 339-345: the upload of the analysis map.
ToolUploadAnalysis(project_found, fail_at) ==
    /\ tpc = "upload_analysis"
    /\ UploadCanFail(fail_at)
    /\ analysis_url' = upload_to_gcs(<<ToolLocationName, "analysis.png">>,
                                     <<"analysis", ToolLocationName, "analysis.png">>,
                                     project_found, fail_at)
    /\ _storage_client' = StorageClientAfter(_storage_client, fail_at)
    /\ _signing_credentials' = SigningCredentialsAfter(_signing_credentials, fail_at)
    /\ t_uploads' = Append(t_uploads, fail_at)
    /\ tpc' = "upload_components"
    /\ UNCHANGED <<_pipeline, _visualizer, api_key, t_request, t_calls, t_constructed,
                   t_pipelines, regions, summary_data, component_url, t_response,
                   vvars, bvars, gvars, avars, rvars>>

\* Lines 347-353: the upload of the component breakdown.
ToolUploadComponents(project_found, fail_at) ==
    /\ tpc = "upload_components"
    /\ UploadCanFail(fail_at)
    /\ component_url' = upload_to_gcs(<<ToolLocationName, "components.png">>,
                                      <<"analysis", ToolLocationName, "components.png">>,
                                      project_found, fail_at)
    /\ _storage_client' = StorageClientAfter(_storage_client, fail_at)
    /\ _signing_credentials' = SigningCredentialsAfter(_signing_credentials, fail_at)
    /\ t_uploads' = Append(t_uploads, fail_at)
    /\ tpc' = "finish"
    /\ UNCHANGED <<_pipeline, _visualizer, api_key, t_request, t_calls, t_constructed,
                   t_pipelines, regions, summary_data, analysis_url, t_response,
                   vvars, bvars, gvars, avars, rvars>>

\* Lines 358-379: the tool returns the summary as JSON.
ToolReturn ==
    /\ tpc = "finish"
    /\ t_response' = FinishedSummary(summary_data, ToolLocationName, analysis_url, component_url)
    /\ tpc' = "done"
    /\ UNCHANGED <<_pipeline, _visualizer, _storage_client, _signing_credentials, api_key,
                   t_request, t_calls, t_constructed, t_pipelines, regions, summary_data,
                   analysis_url, component_url, t_uploads, vvars, bvars, gvars, avars, rvars>>

\* The server process starts with its globals unset (lines 28-32).
ToolInit ==
    /\ _pipeline = None
    /\ _visualizer = None
    /\ _storage_client = None
    /\ _signing_credentials = None
    /\ api_key \in ApiKeys
    /\ tpc = "idle"
    /\ t_request = None
    /\ t_calls = 0
    /\ t_constructed = 0
    /\ t_pipelines = <<>>
    /\ regions = 0
    /\ summary_data = None
    /\ analysis_url = None
    /\ component_url = None
    /\ t_uploads = <<>>
    /\ t_response = None
    /\ VisionIdle
    /\ BatchIdle
    /\ GroundIdle
    /\ AreasIdle
    /\ RasterIdle

ToolNext ==
    \/ \E req \in Requests : ToolCall(req)
    \/ \E pipeline_ok \in BOOLEAN, visualizer_ok \in BOOLEAN :
          GetPipeline(pipeline_ok, visualizer_ok)
    \/ \E ok \in BOOLEAN, n \in 0..MaxRegions : ToolProcess(ok, n)
    \/ \E ok \in BOOLEAN : ToolSummary(ok)
    \/ ToolPreviews
    \/ \E project_found \in BOOLEAN, fail_at \in UploadFailures :
          ToolUploadAnalysis(project_found, fail_at)
    \/ \E project_found \in BOOLEAN, fail_at \in UploadFailures :
          ToolUploadComponents(project_found, fail_at)
    \/ ToolReturn

ToolSpec == ToolInit /\ [][ToolNext]_vars

\* =================================================================
\* The claims
\* =================================================================

\* The tool got as far as launching its tasks.
Launched == tasks # <<>>

\* The tool returned the response that holds a results list.
ReturnedResults == vpc = "returned" /\ "results" \in DOMAIN response

\* A vision record as the prompt asks for it: a JSON object with a numeric
\* tree_count.
ValidRecord(v) ==
    /\ v.t = "dict"
    /\ "tree_count" \in DOMAIN v.d
    /\ v.d.tree_count.t = "num"

\* The entry holds a valid vision record.
HasValidRecord(e) == "vision_analysis" \in DOMAIN e /\ ValidRecord(e.vision_analysis)

\* The task's vision response was malformed: it could not be parsed, was no
\* JSON object, or was an object without a numeric tree_count.
MalformedResponse(task) ==
    /\ task.out.k = "entry"
    /\ \/ /\ "vision_analysis_error" \in DOMAIN task.out.e
          /\ task.out.e.vision_analysis_error \in {"JSONDecodeError", "AttributeError"}
       \/ /\ "vision_analysis" \in DOMAIN task.out.e
          /\ task.out.e.vision_analysis # None
          /\ ~ValidRecord(task.out.e.vision_analysis)

\* The entry e is one of the returned results.
InResults(e) == \E k \in DOMAIN response.results : response.results[k] = e

\* C1: no single spot's failure aborts the others: whatever fails for one
\* spot (a coordinates object without latitude/longitude, the image lookup,
\* the image encoding, the vision call, an unparsable response), the tool
\* returns a results list with the entries of all other spots and never the
\* batch-level failed response. (Stated for batches whose parsed vision
\* records are all valid, so that only the per-spot failures are in play.)
C1_NoSpotFailureAbortsBatch ==
    (/\ vpc = "returned"
     /\ Launched
     /\ \E i \in DOMAIN tasks : tasks[i].out.k = "entry"
     /\ \A i \in DOMAIN tasks : ~MalformedResponse(tasks[i]) \/ "vision_analysis_error" \in DOMAIN tasks[i].out.e)
    => /\ ReturnedResults
       /\ \A i \in DOMAIN tasks : tasks[i].out.k = "entry" => InResults(tasks[i].out.e)

\* C2: a single malformed vision response affects only its own spot: in a
\* batch where no task let an exception escape and exactly one spot's vision
\* response is malformed, the tool returns the results with the valid records
\* of all other spots and the summary over them.
C2_MalformedResponseOnlyItsSpot ==
    (/\ vpc = "returned"
     /\ Launched
     /\ gather_exc = None
     /\ Cardinality({i \in DOMAIN tasks : MalformedResponse(tasks[i])}) = 1
     /\ \E i \in DOMAIN tasks : tasks[i].out.k = "entry" /\ HasValidRecord(tasks[i].out.e))
    => /\ ReturnedResults
       /\ "summary" \in DOMAIN response
       /\ \A i \in DOMAIN tasks :
             (tasks[i].out.k = "entry" /\ HasValidRecord(tasks[i].out.e))
             => InResults(tasks[i].out.e)

\* C5: no operation of the enrichment blocks for good: every provider call is
\* bounded by a timeout, so the tool eventually returns even when a provider
\* never answers.
C5_ToolEventuallyReturns == <>(vpc = "returned")

\* C6: the tasks write no shared state: a step of a task changes that task's
\* own slot only, and the timing totals, the results list and the summary are
\* written only once every task has finished.
C6_AggregationAfterJoin ==
    [][/\ (tasks # <<>> /\ tasks' # tasks)
          => /\ UNCHANGED <<results, streetview_total_time, gemini_total_time, response>>
             /\ \E i \in DOMAIN tasks :
                   \A j \in DOMAIN tasks \ {i} : tasks'[j] = tasks[j]
       /\ (\/ results' # results
           \/ streetview_total_time' # streetview_total_time
           \/ gemini_total_time' # gemini_total_time
           \/ (response' # response /\ "summary" \in DOMAIN response'))
          => (AllStarted /\ AllFinished /\ vpc \in {"gather", "timing", "summary"})
      ]_vars

\* Two spots were both analysed and their times summed after the join.
C6_Witness ==
    /\ ReturnedResults
    /\ Len(tasks) = 2
    /\ \A i \in DOMAIN tasks : tasks[i].out.k = "entry" /\ "timing" \in DOMAIN tasks[i].out.e
    /\ streetview_total_time = 2
    /\ gemini_total_time = 4

\* No ground-level image was obtained for the task's spot.
NoImage(task) == task.image \in {"none", "raised"}

\* C7: for N spots with coordinates (N not above max_spots) of which M < N
\* have a failing image lookup, the tool returns exactly N entries, exactly M
\* of them with street_view_available = false, and attempts exactly N - M
\* vision calls. (Stated for batches in which no task let an exception escape.)
C7_EntriesAndVisionCalls ==
    LET N == Len(critical_spots)
        M == Cardinality({i \in DOMAIN tasks : NoImage(tasks[i])})
    IN  (/\ vpc = "returned"
         /\ Launched
         /\ gather_exc = None
         /\ N <= max_spots
         /\ \A i \in DOMAIN tasks : tasks[i].out.k = "entry"
         /\ M < N)
        => /\ ReturnedResults
           /\ Len(response.results) = N
           /\ Cardinality({k \in DOMAIN response.results :
                              ~response.results[k].street_view_available}) = M
           /\ Len(vision_calls) = N - M

\* C8 as stated: whenever no ground-level image is obtained for a spot (the
\* search returns nothing, or the search or the download raises), the spot's
\* entry has street_view_available = false and vision_analysis = null.
C8_NoImageMeansNullAnalysis ==
    \A i \in DOMAIN tasks :
        NoImage(tasks[i])
        => /\ tasks[i].out.k = "entry"
           /\ ~tasks[i].out.e.street_view_available
           /\ "vision_analysis" \in DOMAIN tasks[i].out.e
           /\ tasks[i].out.e.vision_analysis = None

\* C8 as amended: whenever no ground-level image is obtained for a spot, its
\* entry has street_view_available = false and no vision record: vision_analysis
\* is null when the search returned nothing, and the key is absent, with an
\* error string in its place, when the search or the download raised. The
\* outcome is per spot: a batch of such spots returns its results list, with
\* these entries in it.
C8_NoImageEntry ==
    /\ \A i \in DOMAIN tasks :
          NoImage(tasks[i])
          => /\ tasks[i].out.k = "entry"
             /\ ~tasks[i].out.e.street_view_available
             /\ tasks[i].image = "none"
                => /\ "vision_analysis" \in DOMAIN tasks[i].out.e
                   /\ tasks[i].out.e.vision_analysis = None
                   /\ "error" \notin DOMAIN tasks[i].out.e
             /\ tasks[i].image = "raised"
                => /\ "vision_analysis" \notin DOMAIN tasks[i].out.e
                   /\ "error" \in DOMAIN tasks[i].out.e
    /\ (/\ vpc = "returned"
        /\ Launched
        /\ \A i \in DOMAIN tasks : NoImage(tasks[i]) \/ tasks[i].out.k = "none")
       => /\ ReturnedResults
          /\ \A i \in DOMAIN tasks : NoImage(tasks[i]) => InResults(tasks[i].out.e)

\* A batch returned with one spot whose search found nothing and one whose
\* lookup raised.
C8_Witness ==
    /\ ReturnedResults
    /\ \E i \in DOMAIN tasks : tasks[i].image = "none"
    /\ \E i \in DOMAIN tasks : tasks[i].image = "raised"

\* The entry holds a vision record (vision_analysis is not null).
HasRecord(e) == "vision_analysis" \in DOMAIN e /\ e.vision_analysis # None

\* The entry holds a per-spot error string.
HasError(e) == "error" \in DOMAIN e \/ "vision_analysis_error" \in DOMAIN e

\* C9 as stated: every entry of the returned results carries its availability
\* flag and either a vision record or a per-spot error string.
C9_RecordOrError ==
    ReturnedResults
    => \A k \in DOMAIN response.results :
          LET e == response.results[k]
          IN  /\ "street_view_available" \in DOMAIN e
              /\ HasRecord(e) \/ HasError(e)

\* C9 as amended: every entry of the returned results carries its availability
\* flag and exactly one of: a vision record, a per-spot error string, or, for a
\* spot whose panorama search found nothing, vision_analysis = null with the
\* flag false and no error string.
C9_RecordErrorOrNoPanorama ==
    ReturnedResults
    => \A k \in DOMAIN response.results :
          LET e == response.results[k]
              nothing_found == /\ tasks[e.spot_number].image = "none"
                               /\ ~e.street_view_available
                               /\ "vision_analysis" \in DOMAIN e
                               /\ e.vision_analysis = None
          IN  /\ "street_view_available" \in DOMAIN e
              /\ HasRecord(e) \/ HasError(e) \/ nothing_found
              /\ ~(HasRecord(e) /\ HasError(e))
              /\ ~(HasRecord(e) /\ nothing_found)
              /\ ~(HasError(e) /\ nothing_found)

\* Returned results with a nothing-found entry beside an error entry.
C9_Witness ==
    /\ ReturnedResults
    /\ \E k \in DOMAIN response.results :
          /\ "vision_analysis" \in DOMAIN response.results[k]
          /\ response.results[k].vision_analysis = None
    /\ \E k \in DOMAIN response.results :
          "vision_analysis_error" \in DOMAIN response.results[k]

RECURSIVE SumTrees(_, _)
\* The sum of the tree_count of the entries of rs at the indices in S.
SumTrees(rs, S) ==
    IF S = {} THEN 0
    ELSE LET k == CHOOSE x \in S : TRUE
         IN  rs[k].vision_analysis.d.tree_count.n + SumTrees(rs, S \ {k})

\* C10: the summary and total_spots_analyzed are computed over exactly the
\* spots that produced a valid vision record: the others contribute nothing,
\* every valid record is counted, and the average is 0 when there is none
\* (and the rounded mean otherwise).
C10_SummaryOverValidRecords ==
    ReturnedResults
    => LET rs == response.results
           V == {k \in DOMAIN rs : HasValidRecord(rs[k])}
           with_trees == {k \in V : rs[k].vision_analysis.d.tree_count.n > 0}
           total == SumTrees(rs, V)
           avg == response.summary.average_trees_per_spot
       IN  /\ response.total_spots_analyzed = Cardinality(V)
           /\ response.summary.spots_with_trees = Cardinality(with_trees)
           /\ response.summary.spots_without_trees = Cardinality(V \ with_trees)
           /\ response.summary.total_trees_detected = total
           /\ V = {} => avg = 0
           /\ V # {} => /\ 2 * (avg * Cardinality(V) - 100 * total) <= Cardinality(V)
                        /\ 2 * (100 * total - avg * Cardinality(V)) <= Cardinality(V)

\* A summary over one valid record with a tree, beside a spot without image.
C10_Witness ==
    /\ ReturnedResults
    /\ response.total_spots_analyzed = 1
    /\ response.summary.total_trees_detected = 1
    /\ response.summary.average_trees_per_spot = 100
    /\ \E k \in DOMAIN response.results : ~response.results[k].street_view_available

\* ---------------------------------------------------- the pipeline
\* C3: when a stage raises while a Location is processed, no later stage runs
\* for it and the failure is surfaced to the caller (the exception re-raised by
\* process_location, the entry kept by process_batch, the failed response of
\* the tool) carrying both the Location's identity and the stage that caused it.
C3_FailureCarriesIdentityAndStage ==
    LET name == Last(attempts).name
    IN  /\ stage = "raised"
           => /\ Last(stages_run) = failed_stage
              /\ raised.msg = name \/ "location" \in DOMAIN raised
              /\ raised.msg = failed_stage \/ "stage" \in DOMAIN raised
        /\ (caller = "batch" /\ bpc = "loop" /\ failed_stage # "none")
           => /\ Last(stages_run) = failed_stage
              /\ \E k \in 1..2 : Last(bfailed)[k] = name
              /\ \E k \in 1..2 : Last(bfailed)[k] = failed_stage
        /\ (caller = "server" /\ bpc = "done" /\ failed_stage # "none")
           => /\ Last(stages_run) = failed_stage
              /\ NormalisedName(bresponse.location.name) = name
              /\ bresponse.error = failed_stage \/ "stage" \in DOMAIN bresponse

RECURSIVE Successes(_)
\* The names of the Locations whose processing returned, in call order.
Successes(att) ==
    IF att = <<>> THEN <<>>
    ELSE (IF Head(att).outcome = "returned" THEN <<Head(att).name>> ELSE <<>>)
         \o Successes(Tail(att))

RECURSIVE Failures(_)
\* (name, error) of the Locations whose processing raised, in call order.
Failures(att) ==
    IF att = <<>> THEN <<>>
    ELSE (IF Head(att).outcome = "raised" THEN <<<<Head(att).name, Head(att).error>>>> ELSE <<>>)
         \o Failures(Tail(att))

\* C4: process_batch continues past failed Locations: every Location is
\* attempted exactly once in input order, the returned list holds exactly the
\* successfully processed Locations in input order, each failed Location is
\* recorded once with its name and error, and successes plus failures equals
\* the number of inputs.
C4_BatchContinuesPastFailures ==
    caller = "batch"
    => /\ Len(attempts) <= Len(locations)
       /\ \A k \in DOMAIN attempts : attempts[k].name = locations[k]
       /\ bpc = "done"
          => /\ Len(attempts) = Len(locations)
             /\ bresults = Successes(attempts)
             /\ bfailed = Failures(attempts)
             /\ Len(bresults) + Len(bfailed) = Len(locations)

\* A finished batch whose first Location failed and whose second succeeded.
C4_Witness ==
    /\ caller = "batch"
    /\ bpc = "done"
    /\ Len(attempts) = 2
    /\ attempts[1].outcome = "raised"
    /\ attempts[2].outcome = "returned"

\* C11: at most max_spots spots are processed: for max_spots >= 0 the tasks are
\* those of the first min(len(spots), max_spots) input spots, the results list
\* never has more than max_spots entries, and the vision model is never called
\* for a later spot.
C11_AtMostMaxSpots ==
    max_spots >= 0
    => LET limit == Min(Len(critical_spots), max_spots)
       IN  /\ tasks # <<>> => Len(tasks) = limit
           /\ Len(tasks) <= max_spots
           /\ \A k \in DOMAIN vision_calls : vision_calls[k] \in 1..limit
           /\ Len(results) <= max_spots
           /\ ReturnedResults
              => /\ Len(response.results) <= max_spots
                 /\ \A k \in DOMAIN response.results :
                       response.results[k].spot_number \in 1..limit

\* Two spots were handed in with max_spots = 1: one entry came back, for the
\* first spot, after one vision call.
C11_Witness ==
    /\ ReturnedResults
    /\ Len(critical_spots) = 2
    /\ max_spots = 1
    /\ Len(response.results) = 1
    /\ vision_calls = <<1>>

\* The steps that have returned for the current Location.
StagesReturned ==
    IF failed_stage = "none" THEN stages_run
    ELSE SubSeq(stages_run, 1, Len(stages_run) - 1)

\* Step st has returned for the current Location.
HasReturned(st) == \E k \in DOMAIN StagesReturned : StagesReturned[k] = st

\* C12: process_location runs its steps as one synchronous sequence per
\* Location: download, align, detect, mask, score, visualize, in that order,
\* each step starting only after the previous one has returned; scoring never
\* starts before detection and masking have returned, and masking never before
\* alignment.
C12_StagesInOrder ==
    /\ \A k \in DOMAIN stages_run :
          stages_run[k] = <<"download", "align", "detect", "mask", "score", "visualize">>[k]
    /\ (bpc = "in_location" /\ stage \in {Stages[k] : k \in DOMAIN Stages})
       => /\ failed_stage = "none"
          /\ StageIndex(stage) = Len(stages_run) + 1
          /\ stage = "score" => HasReturned("detect") /\ HasReturned("mask")
          /\ stage = "mask" => HasReturned("align")
    /\ \A k \in DOMAIN stages_run :
          stages_run[k] = "score"
          => \E d, m \in 1..(k - 1) : stages_run[d] = "detect" /\ stages_run[m] = "mask"

\* The scoring step is running, the four steps before it having returned.
C12_Witness ==
    /\ bpc = "in_location"
    /\ stage = "score"
    /\ stages_run = <<"download", "align", "detect", "mask">>

\* The response texts that are no JSON at all.
UnparsableTexts == {<<Junk>>}

\* C13: fenced model output is tolerated: a response whose JSON object is
\* wrapped in code-fence markers (with or without a json tag) gives the spot
\* the same vision record as the bare object does, and a response that cannot
\* be parsed records an error on that spot only: no other task's slot and
\* nothing of the batch changes with it.
C13_FencedOutputTolerated ==
    [][\A i \in 1..MaxSpots, gemini_time \in GeminiTimes :
          /\ \A v \in FencedObjects, text \in FencedTexts :
                (/\ \E tagged, preamble, trailer \in BOOLEAN :
                       text = Fenced(ObjectText(v), tagged, preamble, trailer)
                 /\ VisionReturns(i, text, gemini_time))
                => /\ tasks'[i].out.k = "entry"
                   /\ "vision_analysis" \in DOMAIN tasks'[i].out.e
                   /\ tasks'[i].out.e.vision_analysis = v
          /\ \A text \in UnparsableTexts :
                VisionReturns(i, text, gemini_time)
                => /\ tasks'[i].out.k = "entry"
                   /\ "vision_analysis_error" \in DOMAIN tasks'[i].out.e
                   /\ \A j \in DOMAIN tasks \ {i} : tasks'[j] = tasks[j]
                   /\ UNCHANGED <<vpc, gather_exc, results, response>>
      ]_vars

\* The task's vision call has been made and has not come back.
VisionOutstanding(task) == task.pc \in {"vision", "vision_hung"}

\* C14: the spot tasks run concurrently over both of their steps: while one
\* spot's vision call is in flight, another spot whose image is being fetched
\* can get it and have its own vision call in flight too (which gives a state
\* with two vision calls outstanding at once), rather than the spots being
\* handled one after another.
C14_SpotsRunConcurrently ==
    \A i, j \in DOMAIN tasks :
        (/\ i # j
         /\ vpc = "gather"
         /\ VisionOutstanding(tasks[i])
         /\ tasks[j].pc = "download")
        => ENABLED (\E sv_time \in StreetViewTimes : DownloadReturns(j, "image", sv_time, TRUE))

\* C15: process_batch rate-limits between Locations: whatever succeeds or
\* fails, it has waited the delay after each Location but the last before the
\* next one is processed, and it never waits after the last Location.
C15_DelayBetweenLocations ==
    caller = "batch"
    => /\ (bpc = "in_location" /\ bidx > 1)
          => \E k \in DOMAIN sleeps : sleeps[k] = bidx - 1
       /\ \A k \in DOMAIN sleeps : sleeps[k] < Len(locations)
       /\ bpc = "done" => sleeps = [k \in 1..(Len(locations) - 1) |-> k]

\* C16: analyze_critical_spots treats max_spots as the maximum number of spots
\* to analyze and only None as 'analyze all': for every non-None max_spots
\* (0 included) at most max_spots spots are analyzed, and they are the first
\* ones of the list.
C16_MaxSpotsIsAMaximum ==
    (g_max # None /\ g_max.n >= 0)
    => /\ Len(g_analyzed) <= g_max.n
       /\ Len(g_results) <= g_max.n
       /\ \A k \in DOMAIN g_analyzed : g_analyzed[k] <= g_max.n

\* The keys the summary of a successful result holds.
SummaryKeys ==
    {"total_plantable_areas", "total_plantable_area_m2", "existing_trees_count",
     "original_areas_found", "tree_suggestions"}

\* The function returned a result with a success flag; a successful one holds
\* the map file path and the summary.
AreasResultShape ==
    /\ "success" \in DOMAIN a_result
    /\ a_result.success
       => /\ "map_file_path" \in DOMAIN a_result
          /\ a_result.map_file_path # None
          /\ "summary" \in DOMAIN a_result
          /\ SummaryKeys \subseteq DOMAIN a_result.summary

\* The result of a failed run: success false, an error string, a null path.
AreasFailureResult ==
    /\ ~a_result.success
    /\ "error" \in DOMAIN a_result
    /\ "map_file_path" \in DOMAIN a_result
    /\ a_result.map_file_path = None

\* C17 as stated: get_areas_where_more_tree_can_be_planted always returns a
\* result with a success flag; a successful result holds a map file path and
\* the summary; when any step fails the result has success = false, an error
\* string and map_file_path = null.
C17_AnyFailureIsReported ==
    apc = "returned"
    => /\ AreasResultShape
       /\ a_failed # {} => AreasFailureResult

\* C17 as amended: the same, but a failing fetch of the plantable areas or of
\* the existing trees is only logged and counts as nothing found: the result
\* has success = false, an error string and map_file_path = null exactly when
\* a step after the two fetches failed.
C17_LaterFailureIsReported ==
    apc = "returned"
    => /\ AreasResultShape
       /\ (a_failed \ {"fetch_areas", "fetch_trees"} # {}) => AreasFailureResult
       /\ (a_failed \ {"fetch_areas", "fetch_trees"} = {}) => a_result.success

\* One run returned a successful result although the fetch of the trees had
\* failed; another would have returned the error result of a failed map.
C17_Witness ==
    /\ apc = "returned"
    /\ a_failed = {"fetch_trees"}
    /\ a_result.success
    /\ a_result.summary.total_plantable_areas = 2
    /\ a_result.summary.existing_trees_count = 0

\* ------------------------------------------------------------- C18
\* process_location has run step 5 on the Location.
Scored == rpc \in {"visualize", "returned"}

\* The pixel is inside one of the three masks that bar planting.
Excluded(p) ==
    \/ location.building_mask[p]
    \/ location.street_mask[p]
    \/ location.vegetation_mask[p]

\* What the four stored components of the pixel add up to.
ComponentSum(p) ==
    location.sidewalk_component[p] + location.building_component[p]
        + location.sun_component[p] + location.amenity_component[p]

\* C18: once the Location is scored, every pixel that is flagged in the
\* building mask, the street mask or the vegetation mask handed to the scorer
\* has the composite score 0, whatever its components are, and is in none of
\* the bands critical, high and medium.
C18_MaskedPixelsScoreZero ==
    Scored =>
        \A p \in Pixels :
            Excluded(p) =>
                /\ location.enhanced_priority_score[p] = 0
                /\ ~location.critical_priority[p]
                /\ ~location.high_priority[p]
                /\ ~location.medium_priority[p]

\* A scored Location with a pixel that is inside a building footprint only
\* (no street, no sidewalk, no vegetation) and whose components add up to a
\* critical score, next to a pixel outside every mask that is critical.
C18_Witness ==
    /\ Scored
    /\ \E p, q \in Pixels :
          /\ location.building_mask[p]
          /\ ~location.street_mask[p]
          /\ ~location.sidewalk_mask[p]
          /\ ~location.vegetation_mask[p]
          /\ ComponentSum(p) >= 80000
          /\ location.enhanced_priority_score[p] = 0
          /\ ~Excluded(q)
          /\ location.critical_priority[q]

\* ------------------------------------------------------------- C19
\* process_location has run step 3 on the Location.
Detected == rpc \in {"mask", "score", "visualize", "returned"}

\* C19: the vegetation mask and the shadow mask that detect returned for the
\* raster are disjoint: no pixel is flagged both vegetated and shadowed.
C19_VegetationAndShadowDisjoint ==
    Detected =>
        \A p \in Pixels : ~(location.vegetation_mask[p] /\ location.shadow_mask[p])

\* A detected raster with a dark pixel of low saturation that is flagged
\* vegetated and so kept out of the shadow mask, next to a shadowed pixel.
C19_Witness ==
    /\ Detected
    /\ \E p, q \in Pixels :
          /\ Brightness(location.satellite_img[p]) < 80
          /\ Saturation(location.satellite_img[p]) < 300
          /\ location.vegetation_mask[p]
          /\ ~location.shadow_mask[p]
          /\ location.shadow_mask[q]

\* ------------------------------------------------------------- C20
\* The bands whose mask holds the pixel.
BandsOf(p) ==
    {b \in {"critical", "high", "medium", "low"} :
        CASE b = "critical" -> location.critical_priority[p]
          [] b = "high"     -> location.high_priority[p]
          [] b = "medium"   -> location.medium_priority[p]
          [] OTHER          -> location.low_priority[p]}

\* C20: once the Location is scored, every pixel is in exactly one band, and
\* the band is fixed by the composite score alone (in thousandths): critical
\* from 80.0 up, high from 60.0 to 79.999, medium from 40.0 to 59.999, low
\* under 40.0.
C20_BandsExactThresholds ==
    Scored =>
        \A p \in Pixels :
            LET s == location.enhanced_priority_score[p] IN
            /\ s \in 0..100000
            /\ Cardinality(BandsOf(p)) = 1
            /\ location.critical_priority[p] <=> s >= 80000
            /\ location.high_priority[p] <=> (s >= 60000 /\ s <= 79999)
            /\ location.medium_priority[p] <=> (s >= 40000 /\ s <= 59999)
            /\ location.low_priority[p] <=> s <= 39999

\* A scored Location with a pixel at 80.0 in the critical band and a pixel at
\* 79.999 in the high band.
C20_Witness ==
    /\ Scored
    /\ \E p, q \in Pixels :
          /\ location.enhanced_priority_score[p] = 80000
          /\ BandsOf(p) = {"critical"}
          /\ location.enhanced_priority_score[q] = 79999
          /\ BandsOf(q) = {"high"}

\* A scored Location with pixels on and just under the limits 60.0 and 40.0.
C20_LowerLimitsReached ==
    /\ Scored
    /\ \E p, q \in Pixels :
          \/ /\ location.enhanced_priority_score[p] = 60000
             /\ location.enhanced_priority_score[q] = 59999
          \/ /\ location.enhanced_priority_score[p] = 40000
             /\ location.enhanced_priority_score[q] = 39999

\* ------------------------------------------------------------- C21
\* The tool returned the summary of a successful analysis.
ToolSucceeded == tpc = "done" /\ "critical_priority_spots" \in DOMAIN t_response

Masked == rpc \in {"score", "visualize", "returned"}

\* How far, in metres, the aligned street runs from the pixel.
MetresFrom(g, p) ==
    IF g.x >= PixelEast[p] THEN g.x - PixelEast[p] ELSE PixelEast[p] - g.x

\* C22: the sidewalk mask flags exactly the pixels within 5 m of a pedestrian
\* or low-traffic street of the aligned street set, so medium- and
\* high-traffic streets never contribute to it, while the street mask flags
\* the pixels within reach of a street of any of the four tiers of that same
\* set (5, 10, 15 and 25 m).
C22_SidewalkFromWalkableStreetsOnly ==
    Masked =>
        \A p \in Pixels :
            /\ location.sidewalk_mask[p] <=>
                    \E g \in location.streets_aligned :
                        /\ g.highway \in {"pedestrian", "low_traffic"}
                        /\ MetresFrom(g, p) <= 5
            /\ location.street_mask[p] <=>
                    \E g \in location.streets_aligned :
                        \/ g.highway = "pedestrian" /\ MetresFrom(g, p) <= 5
                        \/ g.highway = "low_traffic" /\ MetresFrom(g, p) <= 10
                        \/ g.highway = "medium_traffic" /\ MetresFrom(g, p) <= 15
                        \/ g.highway = "high_traffic" /\ MetresFrom(g, p) <= 25

\* A Location with a medium-traffic street within 5 m of a pixel: the pixel is
\* in the street mask and not in the sidewalk mask.
C22_Witness ==
    /\ Masked
    /\ \E p \in Pixels, g \in location.streets_aligned :
          /\ g.highway = "medium_traffic"
          /\ MetresFrom(g, p) <= 5
          /\ location.street_mask[p]
          /\ ~location.sidewalk_mask[p]

\* A Location with a low-traffic street between 5 and 10 m from a pixel, which
\* is in the street mask only, and one with a walkable street within 5 m.
C22_WalkableReached ==
    /\ Masked
    /\ \E p \in Pixels, g \in location.streets_aligned :
          /\ g.highway = "low_traffic"
          /\ \/ MetresFrom(g, p) > 5 /\ location.street_mask[p] /\ ~location.sidewalk_mask[p]
             \/ MetresFrom(g, p) <= 5 /\ location.sidewalk_mask[p]

\* ------------------------------------------------------------- C23
\* C23: once the download step has set them, no step of process_location
\* (align, detect, mask, score, visualize) changes location.bounds or
\* location.satellite_img.
C23_BoundsAndImageReadOnly ==
    [][rpc # "download" =>
          /\ location'.bounds = location.bounds
          /\ location'.satellite_img = location.satellite_img]_vars

\* A Location that went through all six steps and holds the bounds of the
\* download step and masks and scores on the pixel grid of its image.
C23_Witness ==
    /\ rpc = "returned"
    /\ location.bounds = <<101624, 3132, 101636, 3144>>
    /\ DOMAIN location.street_mask = DOMAIN location.satellite_img
    /\ DOMAIN location.enhanced_priority_score = DOMAIN location.satellite_img

\* ------------------------------------------------------------- C24
\* C24: whatever calls of get_pipeline were made, and whichever of them had a
\* constructor raise, TreePlantingPipeline was constructed at most once, and
\* every call that returned gave that one pipeline and a visualizer that is
\* not None.
C24_OnePipelineWithVisualizer ==
    /\ t_constructed <= 1
    /\ \A k \in DOMAIN t_pipelines :
          /\ t_pipelines[k][1] = PipelineObject(1)
          /\ t_pipelines[k][2] # None

\* ------------------------------------------------------------- C25
\* The result of analyze_location is consistent in itself.
ConsistentAnalysis(r) ==
    /\ r.total_trees = Len(r.detections)
    /\ r.has_existing_trees <=> r.total_trees > 0
    /\ r.total_trees = 0 => r.average_confidence = 0
    /\ ~r.image_downloaded =>
          /\ r.total_trees = 0
          /\ r.detections = <<>>
          /\ "error" \in DOMAIN r

\* C25: every call of analyze_location returns a result (it never raises),
\* whose total_trees is the number of its detections, whose has_existing_trees
\* says whether total_trees > 0 and whose average_confidence is 0.0 without
\* detections; when the download gave no image or raised, the result has
\* image_downloaded false, no trees, no detections and an error field.
C25_AnalysisConsistent ==
    [][\A download \in GroundDownloads, boxes \in SeqsUpTo(BoxSamples, MaxTrees),
         detect_ok \in BOOLEAN :
          GroundAnalyze(download, boxes, detect_ok) =>
              /\ Len(g_results') = Len(g_results) + 1
              /\ ConsistentAnalysis(Last(g_results'))
              /\ Last(g_results').image_downloaded <=> download = "image"]_vars

\* Results of a spot whose download raised or found nothing, and of a spot
\* with a tree detected in its image.
C25_Witness ==
    /\ gpc = "done"
    /\ \E j, k \in DOMAIN g_results :
          /\ ~g_results[j].image_downloaded
          /\ "error" \in DOMAIN g_results[j]
          /\ g_results[k].image_downloaded
          /\ g_results[k].total_trees = 1
          /\ g_results[k].average_confidence > 0

\* The coordinates process_single_spot reads from a spot it does not skip.
LocationOf(spot) == [latitude |-> Latitude(spot), longitude |-> Longitude(spot)]

\* C26: the results list is in input order whatever order the tasks finish
\* in: each entry's spot_number is the 1-based position of its spot in the
\* input list (the entry is the one the task of that spot returned, with that
\* spot's coordinates and priority score), spot numbers are strictly
\* increasing along the list, and the number of a spot skipped for missing
\* coordinates is given to no entry.
C26_ResultsInInputOrder ==
    ReturnedResults
    => LET rs == response.results
       IN  /\ \A k \in DOMAIN rs :
                 /\ rs[k].spot_number \in DOMAIN tasks
                 /\ rs[k].spot_number \in DOMAIN critical_spots
                 /\ tasks[rs[k].spot_number].out = [k |-> "entry", e |-> rs[k]]
                 /\ rs[k].location = LocationOf(critical_spots[rs[k].spot_number])
                 /\ rs[k].spot_info.spot_number = rs[k].spot_number
                 /\ rs[k].spot_info.priority_score
                       = critical_spots[rs[k].spot_number].priority_score
           /\ \A j, k \in DOMAIN rs : j < k => rs[j].spot_number < rs[k].spot_number
           /\ \A i \in DOMAIN tasks :
                 tasks[i].out.k = "none" => \A k \in DOMAIN rs : rs[k].spot_number # i
           /\ Len(rs) = Cardinality({i \in DOMAIN tasks : tasks[i].out.k = "entry"})

\* Two different spots came back in input order although the vision model
\* was called for the second spot first.
C26_Witness ==
    /\ ReturnedResults
    /\ critical_spots = <<SpotNested, SpotShort>>
    /\ vision_calls = <<2, 1>>
    /\ Len(response.results) = 2
    /\ response.results[1].spot_number = 1
    /\ response.results[2].location = [latitude |-> Num(4), longitude |-> Num(102)]

\* The first spot was skipped for missing coordinates and the only entry
\* carries the number 2.
C26_SkippedNumberKept ==
    /\ ReturnedResults
    /\ critical_spots = <<SpotNoCoords, SpotShort>>
    /\ Len(response.results) = 1
    /\ response.results[1].spot_number = 2

\* Every vision record of rs holds a non-negative integer tree_count.
IntegerCounts(rs) ==
    \A k \in DOMAIN rs :
        HasVisionAnalysis(rs[k]) => /\ ValidRecord(rs[k].vision_analysis)
                                    /\ rs[k].vision_analysis.d.tree_count.n >= 0

\* C27: for a batch whose vision records hold a non-negative integer
\* tree_count the summary is self-consistent: spots_with_trees +
\* spots_without_trees = total_spots_analyzed <= number of result entries,
\* total_trees_detected is the sum of the counted records' tree_count, and
\* highest_priority_for_planting lists, in order, exactly the counted spots
\* whose tree_count is 0, spots_without_trees of them.
C27_SummarySelfConsistent ==
    (ReturnedResults /\ IntegerCounts(response.results))
    => LET rs == response.results
           sm == response.summary
           hp == sm.highest_priority_for_planting
           counted == {k \in DOMAIN rs : HasVisionAnalysis(rs[k])}
           bare == {k \in counted : rs[k].vision_analysis.d.tree_count.n = 0}
       IN  /\ sm.spots_with_trees + sm.spots_without_trees = response.total_spots_analyzed
           /\ response.total_spots_analyzed = Cardinality(counted)
           /\ response.total_spots_analyzed <= Len(rs)
           /\ sm.spots_with_trees = Cardinality(counted \ bare)
           /\ sm.total_trees_detected = SumTrees(rs, counted)
           /\ Len(hp) = sm.spots_without_trees
           /\ {hp[k].spot_number : k \in DOMAIN hp} = {rs[k].spot_number : k \in bare}
           /\ \A k \in DOMAIN hp : hp[k].tree_count = Num(0)
           /\ \A j, k \in DOMAIN hp : j < k => hp[j].spot_number < hp[k].spot_number

\* A summary over a spot with one tree and a spot with none: the second is
\* the one listed for planting.
C27_Witness ==
    /\ ReturnedResults
    /\ IntegerCounts(response.results)
    /\ response.total_spots_analyzed = 2
    /\ response.summary.spots_with_trees = 1
    /\ response.summary.spots_without_trees = 1
    /\ response.summary.total_trees_detected = 1
    /\ Len(response.summary.highest_priority_for_planting) = 1
    /\ response.summary.highest_priority_for_planting[1].spot_number = 2

\* Fewer spots counted than entries returned: one entry has no vision record.
C27_FewerCountedThanReturned ==
    /\ ReturnedResults
    /\ IntegerCounts(response.results)
    /\ Len(response.results) = 2
    /\ response.total_spots_analyzed = 1
    /\ Len(response.summary.highest_priority_for_planting) = 1

\* The spot holds a number under the coordinate's key, in one of the accepted
\* forms: inside the coordinates object, or flat under the long or short key.
CoordinatePresent(spot, long, short) ==
    IF "coordinates" \in DOMAIN spot
    THEN long \in DOMAIN spot.coordinates /\ spot.coordinates[long].t = "num"
    ELSE \/ long \in DOMAIN spot /\ spot[long].t = "num"
         \/ short \in DOMAIN spot /\ spot[short].t = "num"

BothCoordinatesPresent(spot) ==
    /\ CoordinatePresent(spot, "latitude", "lat")
    /\ CoordinatePresent(spot, "longitude", "lon")

\* C28: a spot is processed whenever both of its coordinates are present, in
\* any accepted form and for every numeric value including 0: once its task
\* has taken its first step the task holds the two coordinates and has not
\* returned None; a task returns None (the spot is skipped as missing
\* coordinates) only for a spot that lacks a coordinate.
C28_ProcessedWhenCoordinatesPresent ==
    \A i \in DOMAIN tasks :
        tasks[i].pc # "created"
        => /\ BothCoordinatesPresent(critical_spots[i])
              => /\ tasks[i].out.k # "none"
                 /\ tasks[i].lat # None
                 /\ tasks[i].lon # None
           /\ tasks[i].out.k = "none" => ~BothCoordinatesPresent(critical_spots[i])

\* What upload_to_gcs hands back for an upload that failed at `fail_at`: the
\* signed URL, or one of the two placeholder strings.
ReturnedFor(url, fail_at) ==
    /\ "kind" \in DOMAIN url
    /\ url.kind = CASE fail_at = "none" -> "signed_url"
                    [] fail_at = "credentials" -> "saved_unsigned"
                    [] OTHER -> "saved_locally"

\* The summary of the call in progress as it stood before the uploads.
SummaryBeforeUploads ==
    WithPreviews(create_summary_statistics(ToolLocationName, t_request, regions), api_key)

\* C29: upload_to_gcs never raises: whatever fails in it (the client or the
\* project lookup, the bucket, the upload, the signing credentials, the
\* signing), the call returns the URL or a placeholder and the tool goes on;
\* a call that reached its uploads ends in the summary, never in the failed
\* response, and the location, spots and statistics of that summary are the
\* ones computed before the uploads, whatever the uploads did.
C29_UploadFailureNeverFailsTheCall ==
    t_uploads # <<>>
    => /\ tpc \in {"upload_components", "finish", "done"}
       /\ ReturnedFor(analysis_url, t_uploads[1])
       /\ Len(t_uploads) = 2 => ReturnedFor(component_url, t_uploads[2])
       /\ summary_data = SummaryBeforeUploads
       /\ tpc = "done"
          => /\ Len(t_uploads) = 2
             /\ "status" \notin DOMAIN t_response
             /\ "error" \notin DOMAIN t_response
             /\ t_response.location = SummaryBeforeUploads.location
             /\ t_response.critical_priority_spots
                   = SummaryBeforeUploads.critical_priority_spots
             /\ t_response.priority_distribution
                   = SummaryBeforeUploads.priority_distribution
             /\ t_response.output_files.analysis_visualization_url = analysis_url
             /\ t_response.output_files.component_breakdown_url = component_url

\* A call whose two uploads failed (the upload itself, then the signing)
\* returned the summary with its spots and two placeholders.
C29_Witness ==
    /\ tpc = "done"
    /\ t_uploads = <<"upload", "signing">>
    /\ ToolSucceeded
    /\ Len(t_response.critical_priority_spots) >= 1
    /\ t_response.output_files.analysis_visualization_url.kind = "saved_locally"
    /\ t_response.output_files.component_breakdown_url.kind = "saved_locally"

\* What the finished call would have returned, on the same inputs and with the
\* same outcomes of every step, had GOOGLE_MAPS_API_KEY been `key`.
ResponseWithKey(key) ==
    IF ToolSucceeded
    THEN FinishedSummary(
             WithPreviews(create_summary_statistics(ToolLocationName, t_request, regions), key),
             ToolLocationName, analysis_url, component_url)
    ELSE t_response

\* C30: the output of analyze_tree_planting_opportunities does not reveal
\* GOOGLE_MAPS_API_KEY: a run with another non-empty key, on the same inputs,
\* returns the same output.
C30_OutputIndependentOfKey ==
    (tpc = "done" /\ Truthy(api_key))
    => \A other \in ApiKeys : Truthy(other) => ResponseWithKey(other) = t_response

\* The run is compared with itself correctly: with its own key the response
\* is the one it returned.
C30_OwnKeyGivesOwnResponse == tpc = "done" => ResponseWithKey(api_key) = t_response

====
